---- MODULE Spec2Model ----
(***************************************************************************)
(* Key resolution (utils/keyDetection.ts, determineKey of                  *)
(* utils/musicXmlParser.ts) and first-position fingering assignment        *)
(* (fingeringCalculator, the second file of unnamed/part_003) of the       *)
(* violin-fingering repository.                                            *)
(*                                                                         *)
(* The functions are pure.  An initial state draws the inputs of one run:  *)
(* a key signature for one of the two key resolvers and the argument of    *)
(* one call.  The run resolves the key and then makes the call.            *)
(*                                                                         *)
(* A note name is the sequence of its characters, <<"F", "#">> for "F#",   *)
(* so that the string operations of the code (replace, template strings,   *)
(* table lookups by name) are modelled by what they do.                    *)
(***************************************************************************)
EXTENDS Integers, Sequences, FiniteSets, TLC

VARIABLES pc, sig, keyInfo, call, out

vars == <<pc, sig, keyInfo, call, out>>

(***************************************************************************)
(* Bounds of the model.                                                    *)
(***************************************************************************)
\* signature counts are drawn from -MaxCount..MaxCount (the tables end at 7)
MaxCount == 8
\* octaves are drawn from 2..MaxOctave (the playable range is G3..B5)
MaxOctave == 6
\* longest note list given to calculateFingerings
MaxNotes == 3

Octaves == 2..MaxOctave

(***************************************************************************)
(* types/music.ts                                                          *)
(***************************************************************************)
NoteName ==
  { <<"C">>, <<"C", "#">>, <<"D">>, <<"D", "#">>, <<"E">>, <<"F">>,
    <<"F", "#">>, <<"G">>, <<"G", "#">>, <<"A">>, <<"A", "#">>, <<"B">> }

\* null of Fingering | null
NULL == [null |-> TRUE]

(***************************************************************************)
(* utils/keyDetection.ts                                                   *)
(***************************************************************************)
KEY_SIGNATURE_MAP ==
  (0 :> [major |-> "C", minor |-> "A"]) @@
  (1 :> [major |-> "G", minor |-> "E"]) @@
  (2 :> [major |-> "D", minor |-> "B"]) @@
  (3 :> [major |-> "A", minor |-> "F#"]) @@
  (4 :> [major |-> "E", minor |-> "C#"]) @@
  (5 :> [major |-> "B", minor |-> "G#"]) @@
  (6 :> [major |-> "F#", minor |-> "D#"]) @@
  (7 :> [major |-> "C#", minor |-> "A#"]) @@
  (-1 :> [major |-> "F", minor |-> "D"]) @@
  (-2 :> [major |-> "Bb", minor |-> "G"]) @@
  (-3 :> [major |-> "Eb", minor |-> "C"]) @@
  (-4 :> [major |-> "Ab", minor |-> "F"]) @@
  (-5 :> [major |-> "Db", minor |-> "Bb"]) @@
  (-6 :> [major |-> "Gb", minor |-> "Eb"]) @@
  (-7 :> [major |-> "Cb", minor |-> "Ab"])

\* detectKeyFromSignature(sharps, flats): always the major key of the count
detectKeyFromSignature(sharps, flats) ==
  LET signatureCount == IF sharps > 0 THEN sharps ELSE -flats
  IN  IF signatureCount \notin DOMAIN KEY_SIGNATURE_MAP
      THEN [key |-> "C", mode |-> "major", sharps |-> 0, flats |-> 0]
      ELSE [key |-> KEY_SIGNATURE_MAP[signatureCount].major,
            mode |-> "major", sharps |-> sharps, flats |-> flats]

\* the table local to getActualNote: key name -> altered names, in order
keyAccidentals ==
  ("C" :> <<>>) @@
  ("G" :> << <<"F", "#">> >>) @@
  ("D" :> << <<"F", "#">>, <<"C", "#">> >>) @@
  ("A" :> << <<"F", "#">>, <<"C", "#">>, <<"G", "#">> >>) @@
  ("E" :> << <<"F", "#">>, <<"C", "#">>, <<"G", "#">>, <<"D", "#">> >>) @@
  ("B" :> << <<"F", "#">>, <<"C", "#">>, <<"G", "#">>, <<"D", "#">>,
             <<"A", "#">> >>) @@
  ("F#" :> << <<"F", "#">>, <<"C", "#">>, <<"G", "#">>, <<"D", "#">>,
              <<"A", "#">>, <<"E", "#">> >>) @@
  ("C#" :> << <<"F", "#">>, <<"C", "#">>, <<"G", "#">>, <<"D", "#">>,
              <<"A", "#">>, <<"E", "#">>, <<"B", "#">> >>) @@
  ("F" :> << <<"B", "b">> >>) @@
  ("Bb" :> << <<"B", "b">>, <<"E", "b">> >>) @@
  ("Eb" :> << <<"B", "b">>, <<"E", "b">>, <<"A", "b">> >>) @@
  ("Ab" :> << <<"B", "b">>, <<"E", "b">>, <<"A", "b">>, <<"D", "b">> >>) @@
  ("Db" :> << <<"B", "b">>, <<"E", "b">>, <<"A", "b">>, <<"D", "b">>,
              <<"G", "b">> >>) @@
  ("Gb" :> << <<"B", "b">>, <<"E", "b">>, <<"A", "b">>, <<"D", "b">>,
              <<"G", "b">>, <<"C", "b">> >>) @@
  ("Cb" :> << <<"B", "b">>, <<"E", "b">>, <<"A", "b">>, <<"D", "b">>,
              <<"G", "b">>, <<"C", "b">>, <<"F", "b">> >>)

\* keyAccidentals[keyInfo.key] || []
accidentalsOf(key) ==
  IF key \in DOMAIN keyAccidentals THEN keyAccidentals[key] ELSE <<>>

\* Array.prototype.includes
includes(list, x) == \E i \in 1..Len(list) : list[i] = x

\* noteName.replace(/[#b]/, ""): the first "#" or "b" is removed
RECURSIVE replaceAccidental(_)
replaceAccidental(s) ==
  IF s = <<>> THEN <<>>
  ELSE IF Head(s) \in {"#", "b"} THEN Tail(s)
  ELSE <<Head(s)>> \o replaceAccidental(Tail(s))

getActualNote(noteName, ki) ==
  LET accidentals == accidentalsOf(ki.key)
      baseNote == replaceAccidental(noteName)
  IN  IF includes(accidentals, baseNote \o <<"#">>) THEN baseNote \o <<"#">>
      ELSE IF includes(accidentals, baseNote \o <<"b">>) THEN baseNote \o <<"b">>
      ELSE noteName

enharmonicMap ==
  (<<"C", "b">> :> <<"B">>) @@
  (<<"D", "b">> :> <<"C", "#">>) @@
  (<<"E", "b">> :> <<"D", "#">>) @@
  (<<"F", "b">> :> <<"E">>) @@
  (<<"G", "b">> :> <<"F", "#">>) @@
  (<<"A", "b">> :> <<"G", "#">>) @@
  (<<"B", "b">> :> <<"A", "#">>)

normalizeNoteName(noteName) ==
  IF noteName \in DOMAIN enharmonicMap THEN enharmonicMap[noteName] ELSE noteName

(***************************************************************************)
(* utils/musicXmlParser.ts: the parser's key resolver                      *)
(***************************************************************************)
\* parseKeySignature({ fifths })
parseKeySignature(fifths) ==
  IF fifths > 0 THEN [sharps |-> fifths, flats |-> 0, fifths |-> fifths]
  ELSE IF fifths < 0 THEN [sharps |-> 0, flats |-> -fifths, fifths |-> fifths]
  ELSE [sharps |-> 0, flats |-> 0, fifths |-> 0]

\* the table local to determineKey
keyMap ==
  (0 :> [major |-> "C", minor |-> "A"]) @@
  (1 :> [major |-> "G", minor |-> "E"]) @@
  (2 :> [major |-> "D", minor |-> "B"]) @@
  (3 :> [major |-> "A", minor |-> "F#"]) @@
  (4 :> [major |-> "E", minor |-> "C#"]) @@
  (5 :> [major |-> "B", minor |-> "G#"]) @@
  (6 :> [major |-> "F#", minor |-> "D#"]) @@
  (7 :> [major |-> "C#", minor |-> "A#"]) @@
  (-1 :> [major |-> "F", minor |-> "D"]) @@
  (-2 :> [major |-> "Bb", minor |-> "G"]) @@
  (-3 :> [major |-> "Eb", minor |-> "C"]) @@
  (-4 :> [major |-> "Ab", minor |-> "F"]) @@
  (-5 :> [major |-> "Db", minor |-> "Bb"]) @@
  (-6 :> [major |-> "Gb", minor |-> "Eb"]) @@
  (-7 :> [major |-> "Cb", minor |-> "Ab"])

\* determineKey(fifths, mode): keyMap[fifths] || keyMap[0]
determineKey(fifths, mode) ==
  LET entry == IF fifths \in DOMAIN keyMap THEN keyMap[fifths] ELSE keyMap[0]
      key == IF mode = "minor" THEN entry.minor ELSE entry.major
      keySig == parseKeySignature(fifths)
  IN  [key |-> key, mode |-> mode, sharps |-> keySig.sharps, flats |-> keySig.flats]

(***************************************************************************)
(* fingeringCalculator (unnamed/part_003, from line 206): 1st position     *)
(***************************************************************************)
OPEN_STRINGS ==
  ("E" :> [note |-> <<"E">>, octave |-> 5]) @@
  ("A" :> [note |-> <<"A">>, octave |-> 4]) @@
  ("D" :> [note |-> <<"D">>, octave |-> 4]) @@
  ("G" :> [note |-> <<"G">>, octave |-> 3])

\* the table local to noteToSemitones
baseNotes ==
  (<<"C">> :> 0) @@ (<<"C", "#">> :> 1) @@ (<<"D">> :> 2) @@
  (<<"D", "#">> :> 3) @@ (<<"E">> :> 4) @@ (<<"F">> :> 5) @@
  (<<"F", "#">> :> 6) @@ (<<"G">> :> 7) @@ (<<"G", "#">> :> 8) @@
  (<<"A">> :> 9) @@ (<<"A", "#">> :> 10) @@ (<<"B">> :> 11)

\* baseNotes[normalizeNoteName(noteName)] ?? 0
noteToSemitones(noteName) ==
  LET n == normalizeNoteName(noteName)
  IN  IF n \in DOMAIN baseNotes THEN baseNotes[n] ELSE 0

getAbsoluteSemitones(noteName, octave) == octave * 12 + noteToSemitones(noteName)

getOpenStringSemitones(string) ==
  getAbsoluteSemitones(OPEN_STRINGS[string].note, OPEN_STRINGS[string].octave)

\* the G row written like the other three (offset 6 on the 4th finger)
FIRST_POSITION_FINGERING_MAP_sameRows ==
  [s \in {"E", "A", "D", "G"} |->
     (0 :> 0 @@ 1 :> 1 @@ 2 :> 1 @@ 3 :> 2 @@ 4 :> 2 @@ 5 :> 3 @@ 6 :> 4 @@ 7 :> 4)]

FIRST_POSITION_FINGERING_MAP ==
  ("E" :> (0 :> 0 @@ 1 :> 1 @@ 2 :> 1 @@ 3 :> 2 @@ 4 :> 2 @@ 5 :> 3 @@ 6 :> 4 @@ 7 :> 4)) @@
  ("A" :> (0 :> 0 @@ 1 :> 1 @@ 2 :> 1 @@ 3 :> 2 @@ 4 :> 2 @@ 5 :> 3 @@ 6 :> 4 @@ 7 :> 4)) @@
  ("D" :> (0 :> 0 @@ 1 :> 1 @@ 2 :> 1 @@ 3 :> 2 @@ 4 :> 2 @@ 5 :> 3 @@ 6 :> 4 @@ 7 :> 4)) @@
  ("G" :> (0 :> 0 @@ 1 :> 1 @@ 2 :> 1 @@ 3 :> 2 @@ 4 :> 2 @@ 5 :> 3 @@ 6 :> 3 @@ 7 :> 4))

canPlayInFirstPosition(targetAbs, string) ==
  LET openAbs == getOpenStringSemitones(string)
      offset == targetAbs - openAbs
  IN  offset >= 0 /\ offset <= 7

calculateFirstPositionOnString(targetAbs, string) ==
  LET openAbs == getOpenStringSemitones(string)
      offset == targetAbs - openAbs
  IN  IF offset < 0 \/ offset > 7 THEN NULL
      ELSE IF offset \notin DOMAIN FIRST_POSITION_FINGERING_MAP[string] THEN NULL
      ELSE [position |-> "1st", finger |-> FIRST_POSITION_FINGERING_MAP[string][offset]]

\* the strings in the order of the earlier calculator, highest first
stringsByPreference_highFirst == <<"E", "A", "D", "G">>

stringsByPreference == <<"G", "D", "A", "E">>

\* targetAbs of calculateFingering: the key is applied, then the name normalized
targetAbsOf(note, ki) ==
  getAbsoluteSemitones(normalizeNoteName(getActualNote(note.name, ki)), note.octave)

\* the candidates array built by the loop of calculateFingering
candidatesOf(targetAbs) ==
  LET playable ==
        SelectSeq(stringsByPreference,
                  LAMBDA s : /\ canPlayInFirstPosition(targetAbs, s)
                             /\ calculateFirstPositionOnString(targetAbs, s) # NULL)
  IN  [i \in 1..Len(playable) |->
         [string |-> playable[i],
          position |-> calculateFirstPositionOnString(targetAbs, playable[i]).position,
          finger |-> calculateFirstPositionOnString(targetAbs, playable[i]).finger]]

calculateFingering(note, ki) ==
  LET actualNoteName == getActualNote(note.name, ki)
      normalized == normalizeNoteName(actualNoteName)
      targetAbs == getAbsoluteSemitones(normalized, note.octave)
      candidates == candidatesOf(targetAbs)
      best == candidates[1]
  IN  IF Len(candidates) = 0 THEN NULL
      ELSE [string |-> best.string, finger |-> best.finger,
            position |-> best.position,
            note |-> [note EXCEPT !.name = normalized]]

\* an unplayable note is given the open G string instead of being dropped
calculateFingerings_defaulted(notes, ki) ==
  [i \in 1..Len(notes) |->
     IF calculateFingering(notes[i], ki) # NULL
       THEN calculateFingering(notes[i], ki)
       ELSE [string |-> "G", finger |-> 0, position |-> "1st", note |-> notes[i]]]

\* notes.map(calculateFingering).filter(x => x !== null)
calculateFingerings(notes, ki) ==
  SelectSeq([i \in 1..Len(notes) |-> calculateFingering(notes[i], ki)],
            LAMBDA x : x # NULL)

(***************************************************************************)
(* Inputs of a run                                                         *)
(***************************************************************************)
Letters == {"C", "D", "E", "F", "G", "A", "B"}

\* every spelling of a note: a letter, alone or with "#" or "b"
Spellings ==
  { <<l>> : l \in Letters } \cup { <<l, a>> : l \in Letters, a \in {"#", "b"} }

Notes == [name : NoteName, octave : Octaves]

\* the notes the lists of calculateFingerings are made of: below the range,
\* inside it (altered or not by the key) and above it
SampleNotes ==
  { [name |-> <<"F">>, octave |-> 3], [name |-> <<"G">>, octave |-> 4],
    [name |-> <<"B">>, octave |-> 4], [name |-> <<"C">>, octave |-> MaxOctave] }

NoteLists == UNION { [1..n -> SampleNotes] : n \in 0..MaxNotes }

Modes == {"major", "minor"}

SigInputs ==
  { [resolver |-> "detectKeyFromSignature", sharps |-> s, flats |-> f,
     fifths |-> 0, mode |-> "major"] :
      s \in 0..MaxCount, f \in 0..MaxCount }
  \cup
  { [resolver |-> "determineKey", sharps |-> 0, flats |-> 0,
     fifths |-> n, mode |-> m] : n \in -MaxCount..MaxCount, m \in Modes }

CallInputs ==
  { [op |-> "getActualNote", name |-> n, octave |-> 0, notes |-> <<>>] :
      n \in Spellings }
  \cup
  { [op |-> "calculateFingering", name |-> n.name, octave |-> n.octave,
     notes |-> <<>>] : n \in Notes }
  \cup
  { [op |-> "calculateFingerings", name |-> <<>>, octave |-> 0, notes |-> ns] :
      ns \in NoteLists }

NoKey == [key |-> "", mode |-> "", sharps |-> 0, flats |-> 0]

NoOut == [actual |-> <<>>, targetAbs |-> 0, candidates |-> <<>>,
          fingering |-> NULL, fingerings |-> <<>>]

(***************************************************************************)
(* The run: resolve the key, then make the call                            *)
(***************************************************************************)
Init ==
  /\ pc = "start"
  /\ sig \in SigInputs
  /\ call \in CallInputs
  /\ keyInfo = NoKey
  /\ out = NoOut

DetectKeyFromSignature ==
  /\ pc = "start"
  /\ sig.resolver = "detectKeyFromSignature"
  /\ keyInfo' = detectKeyFromSignature(sig.sharps, sig.flats)
  /\ pc' = "resolved"
  /\ UNCHANGED <<sig, call, out>>

DetermineKey ==
  /\ pc = "start"
  /\ sig.resolver = "determineKey"
  /\ keyInfo' = determineKey(sig.fifths, sig.mode)
  /\ pc' = "resolved"
  /\ UNCHANGED <<sig, call, out>>

GetActualNote ==
  /\ pc = "resolved"
  /\ call.op = "getActualNote"
  /\ out' = [out EXCEPT !.actual = getActualNote(call.name, keyInfo)]
  /\ pc' = "done"
  /\ UNCHANGED <<sig, keyInfo, call>>

CalculateFingering ==
  /\ pc = "resolved"
  /\ call.op = "calculateFingering"
  /\ LET note == [name |-> call.name, octave |-> call.octave]
     IN  out' = [out EXCEPT
                   !.actual = getActualNote(note.name, keyInfo),
                   !.targetAbs = targetAbsOf(note, keyInfo),
                   !.candidates = candidatesOf(targetAbsOf(note, keyInfo)),
                   !.fingering = calculateFingering(note, keyInfo)]
  /\ pc' = "done"
  /\ UNCHANGED <<sig, keyInfo, call>>

CalculateFingerings ==
  /\ pc = "resolved"
  /\ call.op = "calculateFingerings"
  /\ out' = [out EXCEPT !.fingerings = calculateFingerings(call.notes, keyInfo)]
  /\ pc' = "done"
  /\ UNCHANGED <<sig, keyInfo, call>>

Next ==
  \/ DetectKeyFromSignature
  \/ DetermineKey
  \/ GetActualNote
  \/ CalculateFingering
  \/ CalculateFingerings

Spec == Init /\ [][Next]_vars

(***************************************************************************)
(* Vocabulary of the claims                                                *)
(***************************************************************************)
Strings == {"G", "D", "A", "E"}

\* open strings G3, D4, A4, E5 as absolute pitches
OpenPitch == ("G" :> 43) @@ ("D" :> 50) @@ ("A" :> 57) @@ ("E" :> 64)

\* rank of a string, lowest-pitched first
StringRank == ("G" :> 1) @@ ("D" :> 2) @@ ("A" :> 3) @@ ("E" :> 4)

LetterSemitone ==
  ("C" :> 0) @@ ("D" :> 2) @@ ("E" :> 4) @@ ("F" :> 5) @@ ("G" :> 7) @@
  ("A" :> 9) @@ ("B" :> 11)

\* +1 for a sharp, -1 for a flat, 0 for a natural
Shift(name) ==
  IF Len(name) = 1 THEN 0 ELSE IF name[2] = "#" THEN 1 ELSE -1

\* pitch of the sounding note: octave*12 + semitone(letter) + shift
SoundingPitch(name, octave) == octave * 12 + LetterSemitone[name[1]] + Shift(name)

\* the signed accidental count given to the resolver of this run
SignedCount ==
  IF sig.resolver = "detectKeyFromSignature"
    THEN (IF sig.sharps > 0 THEN sig.sharps ELSE -sig.flats)
    ELSE sig.fifths

InTable == SignedCount >= -7 /\ SignedCount <= 7

Resolved == pc \in {"resolved", "done"}

Done(op) == pc = "done" /\ call.op = op

SharpOrder == <<"F", "C", "G", "D", "A", "E", "B">>
FlatOrder == <<"B", "E", "A", "D", "G", "C", "F">>

\* the first |n| letters of the sharp order as sharps, of the flat order as flats
ExpectedAccidentals(n) ==
  IF n > 0 THEN [i \in 1..n |-> <<SharpOrder[i], "#">>]
  ELSE IF n < 0 THEN [i \in 1..(-n) |-> <<FlatOrder[i], "b">>]
  ELSE <<>>

\* fingers of offsets 0..7 (index offset + 1)
ExpectedFingers(string) ==
  IF string = "G" THEN <<0, 1, 1, 2, 2, 3, 3, 4>> ELSE <<0, 1, 1, 2, 2, 3, 4, 4>>

(***************************************************************************)
(* C1..C10                                                                 *)
(***************************************************************************)

\* C1: calculateFingering returns a Fingering if and only if the absolute
\* pitch of the resolved note, octave*12 + semitone of the resolved name,
\* lies in 43..71 (G3 up to E5 + 7); below 43 and above 71 it returns null.
Claim_C1 ==
  Done("calculateFingering") =>
    ((out.fingering # NULL) <=>
       (SoundingPitch(out.actual, call.octave) \in 43..71))

\* The range test on the pitch the code computes: a Fingering is returned
\* exactly when targetAbs lies in 43..71 (what remains of C1 once the pitch
\* computation of C5 is set aside).
RangeOnTargetAbs ==
  Done("calculateFingering") =>
    ((out.fingering # NULL) <=> (out.targetAbs \in 43..71))

\* C2 as stated: a note whose absolute pitch is the open pitch of a string S
\* gets string S, finger 0, position 1st, for each of the four strings.
Claim_C2_asStated ==
  Done("calculateFingering") =>
    \A s \in Strings :
      SoundingPitch(out.actual, call.octave) = OpenPitch[s] =>
        /\ out.fingering # NULL
        /\ out.fingering.string = s
        /\ out.fingering.finger = 0
        /\ out.fingering.position = "1st"

\* C2 as amended: the open pitch of G (43) gets string G, finger 0, position
\* 1st; the open pitches of D, A and E (50, 57, 64) get the next lower string
\* (G, D, A) with finger 4, position 1st, because the lowest string that
\* reaches the pitch is preferred.
Claim_C2 ==
  Done("calculateFingering") =>
    LET p == SoundingPitch(out.actual, call.octave)
        f == out.fingering
    IN  /\ p = OpenPitch["G"] =>
             f # NULL /\ f.string = "G" /\ f.finger = 0 /\ f.position = "1st"
        /\ p = OpenPitch["D"] =>
             f # NULL /\ f.string = "G" /\ f.finger = 4 /\ f.position = "1st"
        /\ p = OpenPitch["A"] =>
             f # NULL /\ f.string = "D" /\ f.finger = 4 /\ f.position = "1st"
        /\ p = OpenPitch["E"] =>
             f # NULL /\ f.string = "A" /\ f.finger = 4 /\ f.position = "1st"

\* a note sounding at the open D string is put on the G string, 4th finger
Witness_C2 ==
  /\ Done("calculateFingering")
  /\ SoundingPitch(out.actual, call.octave) = OpenPitch["D"]
  /\ out.fingering # NULL
  /\ out.fingering.string = "G"
  /\ out.fingering.finger = 4

\* C3: among the strings whose offset (absolute pitch minus open pitch) lies
\* in 0..7, calculateFingering returns the lowest-pitched one; G octave 4
\* with no signature accidentals (pitch 55) goes to the D string, finger 3,
\* position 1st.
Claim_C3 ==
  Done("calculateFingering") =>
    LET p == SoundingPitch(out.actual, call.octave)
        inRange == {s \in Strings : p - OpenPitch[s] \in 0..7}
    IN  /\ inRange # {} =>
             /\ out.fingering # NULL
             /\ out.fingering.string \in inRange
             /\ \A s \in inRange :
                  StringRank[out.fingering.string] <= StringRank[s]
        /\ (call.name = <<"G">> /\ call.octave = 4 /\ accidentalsOf(keyInfo.key) = <<>>) =>
             /\ out.fingering # NULL
             /\ out.fingering.string = "D"
             /\ out.fingering.finger = 3
             /\ out.fingering.position = "1st"

\* The selection on the pitch the code computes: the lowest-pitched string
\* whose offset from targetAbs lies in 0..7 is returned (what remains of C3
\* once the pitch computation of C5 is set aside).
LowestStringOnTargetAbs ==
  Done("calculateFingering") =>
    LET inRange == {s \in Strings : out.targetAbs - OpenPitch[s] \in 0..7}
    IN  IF inRange = {} THEN out.fingering = NULL
        ELSE /\ out.fingering # NULL
             /\ out.fingering.string \in inRange
             /\ \A s \in inRange :
                  StringRank[out.fingering.string] <= StringRank[s]

\* C4: the offset-to-finger mapping is 0,1,1,2,2,3,4,4 for offsets 0..7 on
\* the strings E, A and D, and 0,1,1,2,2,3,3,4 on G; finger 0 only for offset
\* 0 and with position 1st, every finger in 0..4, and the finger never
\* decreases when the offset grows.
Claim_C4 ==
  Done("calculateFingering") =>
    /\ \A i \in 1..Len(out.candidates) :
         LET c == out.candidates[i]
             offset == out.targetAbs - getOpenStringSemitones(c.string)
         IN  /\ offset \in 0..7
             /\ c.finger = ExpectedFingers(c.string)[offset + 1]
             /\ c.finger \in 0..4
             /\ c.position = "1st"
             /\ (c.finger = 0) <=> (offset = 0)
    /\ out.fingering # NULL =>
         /\ out.fingering.finger = out.candidates[1].finger
         /\ out.fingering.string = out.candidates[1].string
         /\ out.fingering.position = "1st"
    /\ \A s \in Strings : \A o \in 0..7 :
         LET r == calculateFirstPositionOnString(getOpenStringSemitones(s) + o, s)
         IN  /\ r # NULL
             /\ r.finger = ExpectedFingers(s)[o + 1]
             /\ \A o2 \in o..7 :
                  r.finger <=
                    calculateFirstPositionOnString(getOpenStringSemitones(s) + o2, s).finger

\* offset 6 on the G string (C#4, pitch 49) is played with the 3rd finger
Witness_C4 ==
  /\ Done("calculateFingering")
  /\ out.targetAbs = 49
  /\ out.fingering # NULL
  /\ out.fingering.string = "G"
  /\ out.fingering.finger = 3

\* C5: the absolute pitch calculateFingering uses equals octave*12 +
\* semitone(letter) + shift (+1 sharp, -1 flat, 0 natural) for every name that
\* key resolution produces from a natural letter under a key of count -7..7.
Claim_C5 ==
  (Done("calculateFingering") /\ InTable /\ Len(call.name) = 1) =>
    out.targetAbs = SoundingPitch(out.actual, call.octave)

\* C6: for every count n in -7..7 and either mode flag, the accidental table
\* applied under the resolved key has exactly |n| entries: the first |n|
\* letters of F,C,G,D,A,E,B as sharps (n > 0) or of B,E,A,D,G,C,F as flats
\* (n < 0); no letter is in the table both as a sharp and as a flat.
Claim_C6 ==
  (Resolved /\ InTable) =>
    LET table == accidentalsOf(keyInfo.key)
    IN  /\ table = ExpectedAccidentals(SignedCount)
        /\ \A i, j \in 1..Len(table) :
             table[i][1] = table[j][1] => table[i] = table[j]

\* C7: for every count outside -7..7 both key resolvers return the identity
\* key: key C, mode major, sharps 0, flats 0, so no accidental is applied.
Claim_C7 ==
  (Resolved /\ ~InTable) =>
    /\ keyInfo = [key |-> "C", mode |-> "major", sharps |-> 0, flats |-> 0]
    /\ accidentalsOf(keyInfo.key) = <<>>

\* C8: under a major key of count -7..7, a natural letter that is in the
\* key's accidental table is returned under its altered name and its string
\* and finger are those of the altered pitch; a letter that is not in the
\* table keeps its name and pitch.
Claim_C8 ==
  (Done("calculateFingering") /\ InTable /\ keyInfo.mode = "major"
     /\ Len(call.name) = 1 /\ out.fingering # NULL) =>
    LET table == accidentalsOf(keyInfo.key)
        f == out.fingering
    IN  IF \E i \in 1..Len(table) : table[i][1] = call.name[1]
          THEN LET altered == CHOOSE a \in {table[i] : i \in 1..Len(table)} :
                                a[1] = call.name[1]
                   p == SoundingPitch(altered, call.octave)
               IN  /\ SoundingPitch(f.note.name, 0) % 12 = p % 12
                   /\ p - OpenPitch[f.string] \in 0..7
                   /\ f.finger = ExpectedFingers(f.string)[p - OpenPitch[f.string] + 1]
          ELSE /\ f.note.name = call.name
               /\ out.targetAbs = SoundingPitch(call.name, call.octave)

\* C9: a note name that already carries a sharp or a flat is returned
\* unchanged by getActualNote under every key; only a natural letter that is
\* in the key's accidental table is altered.
Claim_C9 ==
  Done("getActualNote") =>
    /\ Len(call.name) = 2 => out.actual = call.name
    /\ out.actual # call.name =>
         /\ Len(call.name) = 1
         /\ includes(accidentalsOf(keyInfo.key), out.actual)

\* C10: calculateFingerings returns, in input order, exactly the non-null
\* results of calculateFingering on each note alone: an unplayable note is
\* dropped, never defaulted, and there are never more fingerings than notes.
Claim_C10 ==
  Done("calculateFingerings") =>
    LET ns == call.notes
        f == out.fingerings
        playable == {i \in 1..Len(ns) : calculateFingering(ns[i], keyInfo) # NULL}
        rank(i) == Cardinality({j \in playable : j <= i})
    IN  /\ Len(f) = Cardinality(playable)
        /\ Len(f) <= Len(ns)
        /\ \A i \in playable : f[rank(i)] = calculateFingering(ns[i], keyInfo)
        /\ \A k \in 1..Len(f) : f[k] # NULL

\* a list whose middle note is unplayable: the two others are kept, in order
Witness_C10 ==
  /\ Done("calculateFingerings")
  /\ Len(call.notes) = 3
  /\ calculateFingering(call.notes[1], keyInfo) # NULL
  /\ calculateFingering(call.notes[2], keyInfo) = NULL
  /\ calculateFingering(call.notes[3], keyInfo) # NULL
  /\ call.notes[1] # call.notes[3]
  /\ Len(out.fingerings) = 2

(***************************************************************************)
(* utils/musicXmlParser.ts: parseMusicXML, on the tree the XML parser gives *)
(*                                                                         *)
(* A value of the tree is a record with a kind: "absent" (undefined),      *)
(* "str" (a string that is not a number), "num", "object" (with its        *)
(* fields) or "array" (with its items).  Pixel coordinates are counted in  *)
(* half pixels, the unit of rawX * 0.5 for a whole number of tenths rawX.  *)
(***************************************************************************)
ABSENT == [kind |-> "absent"]

NAN == [kind |-> "nan"]

Str(s) == [kind |-> "str", s |-> s]

Num(n) == [kind |-> "num", n |-> n]

Arr(items) == [kind |-> "array", items |-> items]

\* obj.f, undefined when obj is not an object or has no such field
get(obj, f) ==
  IF obj.kind = "object" /\ f \in DOMAIN obj THEN obj[f] ELSE ABSENT

\* JavaScript truthiness: undefined, "", 0 and NaN are falsy
truthy(v) ==
  CASE v.kind = "absent" -> FALSE
    [] v.kind = "nan" -> FALSE
    [] v.kind = "str" -> v.s # ""
    [] v.kind = "num" -> v.n # 0
    [] OTHER -> TRUE

\* parseInt(String(v)) and parseFloat(String(v)) on these values
parseInt(v) == IF v.kind = "num" THEN v ELSE NAN

parseFloat(v) == IF v.kind = "num" THEN v ELSE NAN

\* px pixels, in half pixels
px(n) == 2 * n

\* a reading that accepts arrays only
toArray_arraysOnly(node) ==
  CASE ~truthy(node) -> [ok |-> TRUE, items |-> <<>>]
    [] node.kind = "array" -> [ok |-> TRUE, items |-> node.items]
    [] OTHER -> [ok |-> FALSE, items |-> <<>>]

\* let xs = node || []; a single object becomes [node]; anything else that is
\* not an array is refused
toArray(node) ==
  CASE ~truthy(node) -> [ok |-> TRUE, items |-> <<>>]
    [] node.kind = "array" -> [ok |-> TRUE, items |-> node.items]
    [] node.kind = "object" -> [ok |-> TRUE, items |-> <<node>>]
    [] OTHER -> [ok |-> FALSE, items |-> <<>>]

\* the table local to pitchToNoteName
noteNames ==
  ("C" :> << <<"C">>, <<"C", "#">>, <<"D">> >>) @@
  ("D" :> << <<"D">>, <<"D", "#">>, <<"E">> >>) @@
  ("E" :> << <<"E">>, <<"F">>, <<"F", "#">> >>) @@
  ("F" :> << <<"F">>, <<"F", "#">>, <<"G">> >>) @@
  ("G" :> << <<"G">>, <<"G", "#">>, <<"A">> >>) @@
  ("A" :> << <<"A">>, <<"A", "#">>, <<"B">> >>) @@
  ("B" :> << <<"B">>, <<"C">>, <<"C", "#">> >>)

Max(a, b) == IF a > b THEN a ELSE b

Min(a, b) == IF a < b THEN a ELSE b

\* pitchToNoteName(pitch): index = max(0, min(2, alter + 1)), 1-based here
pitchToNoteName(pitch) ==
  IF ~truthy(pitch) THEN <<"C">>
  ELSE
    LET step == IF truthy(get(pitch, "step")) THEN get(pitch, "step").s ELSE "C"
        alt == IF truthy(get(pitch, "alter"))
               THEN parseInt(get(pitch, "alter")) ELSE Num(0)
        names == IF step \in DOMAIN noteNames THEN noteNames[step]
                 ELSE noteNames["C"]
        index == Max(0, Min(2, alt.n + 1))
    IN  names[index + 1]

\* getOctave(pitch): 4 without an octave
getOctave(pitch) ==
  IF ~truthy(pitch) \/ ~truthy(get(pitch, "octave")) THEN 4
  ELSE get(pitch, "octave").n

\* the parser's own noteToSemitones: baseNotes[noteName] ?? 0
parserNoteToSemitones(noteName) ==
  IF noteName \in DOMAIN baseNotes THEN baseNotes[noteName] ELSE 0

\* parseTimeSignature(time)
parseTimeSignature(time) ==
  IF ~truthy(time) \/ ~truthy(get(time, "beats"))
     \/ ~truthy(get(time, "beat-type"))
  THEN ABSENT
  ELSE [kind |-> "object",
        numerator |-> IF truthy(parseInt(get(time, "beats")))
                      THEN parseInt(get(time, "beats")).n ELSE 4,
        denominator |-> IF truthy(parseInt(get(time, "beat-type")))
                        THEN parseInt(get(time, "beat-type")).n ELSE 4]

\* parseDuration(duration, divisions): the quotient dur / divisions is kept
\* as the pair of its terms
parseDuration(duration, divisions) ==
  IF ~truthy(duration) THEN [dur |-> 1, per |-> 1]
  ELSE IF parseInt(duration).kind = "nan" THEN [dur |-> 1, per |-> 1]
  ELSE [dur |-> parseInt(duration).n, per |-> divisions]

\* duration >= 1 on such a quotient (divisions is never 0)
atLeastOne(duration) ==
  IF duration.per > 0 THEN duration.dur >= duration.per
  ELSE duration.dur <= duration.per

\* the result object; the messages are rendered in English
NoResult ==
  [success |-> FALSE, error |-> "", notes |-> <<>>, keyInfo |-> NoKey,
   keySignature |-> [sharps |-> 0, flats |-> 0], timeSignature |-> ABSENT]

\* a failure that carries no message
failure_silent(error, logs) ==
  [phase |-> "done", measures |-> <<>>, mi |-> 0, measureNotes |-> <<>>,
   ni |-> 0, notes |-> <<>>, currentX |-> 0, divisions |-> 1,
   keyInfo |-> NoKey, keySignature |-> [sharps |-> 0, flats |-> 0],
   timeSignature |-> ABSENT, logs |-> logs, result |-> NoResult]

\* the locals of parseMusicXML after a return { success: false, error, logs }
failure(error, logs) ==
  [phase |-> "done", measures |-> <<>>, mi |-> 0, measureNotes |-> <<>>,
   ni |-> 0, notes |-> <<>>, currentX |-> 0, divisions |-> 1,
   keyInfo |-> NoKey, keySignature |-> [sharps |-> 0, flats |-> 0],
   timeSignature |-> ABSENT, logs |-> logs,
   result |-> [NoResult EXCEPT !.error = error]]

\* the catch of the outer try: one more log line, then the failure
caught(message, logs) == failure(message, Append(logs, "parse-error"))

\* Object.keys(parsed); the trees considered have at most one root key
rootKeys(parsed) == DOMAIN parsed \ {"kind"}

\* a reading of the attributes from the last measure
lastMeasureOf(measures) == measures[Len(measures)]

\* const firstMeasure = measures[0]
firstMeasureOf(measures) == measures[1]

\* the first-measure attributes and the initial loop state
readAttributes(measures, logs) ==
  LET firstMeasure == firstMeasureOf(measures)
      attributes == get(firstMeasure, "attributes")
      div == parseInt(get(attributes, "divisions"))
      divisions == IF truthy(attributes) /\ truthy(get(attributes, "divisions"))
                      /\ truthy(div)
                   THEN div.n ELSE 1
      key == get(attributes, "key")
      hasKey == truthy(attributes) /\ truthy(key)
      fifths == IF truthy(get(key, "fifths"))
                   /\ parseInt(get(key, "fifths")).kind = "num"
                THEN parseInt(get(key, "fifths")).n ELSE 0
      keySig == parseKeySignature(fifths)
      mode == IF truthy(get(key, "mode")) THEN get(key, "mode").s ELSE "major"
      timeSignature == IF truthy(attributes)
                       THEN parseTimeSignature(get(attributes, "time"))
                       ELSE ABSENT
  IN  [phase |-> "measure", measures |-> measures, mi |-> 1,
       measureNotes |-> <<>>, ni |-> 0, notes |-> <<>>, currentX |-> px(200),
       divisions |-> divisions,
       keyInfo |-> IF hasKey THEN determineKey(keySig.fifths, mode) ELSE NoKey,
       keySignature |-> IF hasKey THEN keySig ELSE [sharps |-> 0, flats |-> 0],
       timeSignature |-> timeSignature,
       logs |-> logs \o (IF hasKey THEN <<"key">> ELSE <<>>)
                     \o (IF truthy(timeSignature) THEN <<"time">> ELSE <<>>),
       result |-> NoResult]

\* a reading of the measures from the last part
readParts_lastPart(scorePartwise, logs) ==
  LET parts == toArray(get(scorePartwise, "part"))
  IN  IF ~parts.ok \/ parts.items = <<>>
      THEN failure("Part not found", Append(logs, "part-structure"))
      ELSE
        LET measures == toArray(get(parts.items[Len(parts.items)], "measure"))
            logs1 == Append(logs, "part-count")
        IN  IF ~measures.ok \/ measures.items = <<>>
            THEN failure("Measure not found", Append(logs1, "measure-structure"))
            ELSE readAttributes(measures.items, Append(logs1, "measure-count"))

\* from the score element to the measures of the first part
readParts(scorePartwise, logs) ==
  LET parts == toArray(get(scorePartwise, "part"))
  IN  IF ~parts.ok \/ parts.items = <<>>
      THEN failure("Part not found", Append(logs, "part-structure"))
      ELSE
        LET firstPart == parts.items[1]
            measures == toArray(get(firstPart, "measure"))
            logs1 == Append(logs, "part-count")
        IN  IF ~measures.ok \/ measures.items = <<>>
            THEN failure("Measure not found", Append(logs1, "measure-structure"))
            ELSE readAttributes(measures.items, Append(logs1, "measure-count"))

\* from the parsed tree to the score element
readRoot(parsed, logs) ==
  LET named == get(parsed, "score-partwise")
      logs1 == Append(logs, "root-keys")
      useFirst == ~truthy(named) /\ rootKeys(parsed) # {}
      found == IF truthy(named) THEN named
               ELSE IF useFirst THEN parsed[CHOOSE k \in rootKeys(parsed) : TRUE]
               ELSE ABSENT
      logs2 == logs1
               \o (IF truthy(named) THEN <<>> ELSE <<"available-keys">>)
               \o (IF useFirst THEN <<"first-key">> ELSE <<>>)
  IN  IF ~truthy(found)
      THEN failure("No valid MusicXML structure", Append(logs2, "structure-sample"))
      ELSE IF found.kind = "array"
      THEN LET logs3 == logs2 \o <<"score-type", "score-array">>
           IN  IF found.items = <<>>
               THEN caught("Cannot read properties of undefined", logs3)
               ELSE readParts(found.items[1], logs3)
      ELSE readParts(found, Append(logs2, "score-type"))

\* parseMusicXML up to the note loop
beginParse(doc) ==
  LET logs0 == <<"parse-start", "length", "head">>
      retry == <<"xml-error", "xml-stack", "retry">>
  IN  IF doc.xml = "fail"
      THEN failure("XML parse failed", logs0 \o retry)
      ELSE
        LET logs1 == IF doc.xml = "ok" THEN Append(logs0, "xml-parsed")
                     ELSE logs0 \o retry \o <<"alt-parsed">>
        IN  IF ~truthy(doc.parsed) \/ doc.parsed.kind # "object"
            THEN failure("Parsed result is not an object", logs1)
            ELSE readRoot(doc.parsed, logs1)

\* a reading of the attribute spelling only
xField_attributeOnly(noteElement) == get(noteElement, "@_default-x")

\* the default-x the note loop reads: the attribute when it is defined,
\* else the child element; likewise default-y
xField(noteElement) ==
  IF get(noteElement, "@_default-x") # ABSENT
  THEN get(noteElement, "@_default-x") ELSE get(noteElement, "default-x")

yField(noteElement) ==
  IF get(noteElement, "@_default-y") # ABSENT
  THEN get(noteElement, "@_default-y") ELSE get(noteElement, "default-y")

\* defaultNoteY = c4Y - octaveOffset - semitoneOffset, staffTopY = 150 and
\* lineSpacing = 14
defaultNoteY(noteName, octave) ==
  LET lineSpacing == 14
      c4Y == px(150) + 3 * lineSpacing
      octaveOffset == px((octave - 4) * 7 * lineSpacing)
      semitoneOffset == parserNoteToSemitones(noteName) * lineSpacing
  IN  c4Y - octaveOffset - semitoneOffset

\* a cursor whose spacing is the same for every duration
nextCursor_evenSpacing(currentX, noteX, explicitX, duration) ==
  IF ~explicitX THEN currentX + px(60) ELSE noteX + px(50)

\* a cursor that only ever advances by the note spacing
nextCursor_advanceOnly(currentX, noteX, explicitX, duration) ==
  currentX + (IF atLeastOne(duration) THEN px(60) ELSE px(40))

\* the update of currentX after a note: explicitX is hasValidX with a
\* default-x field defined
nextCursor(currentX, noteX, explicitX, duration) ==
  LET noteSpacing == IF atLeastOne(duration) THEN px(60) ELSE px(40)
  IN  IF ~explicitX THEN currentX + noteSpacing ELSE noteX + px(50)

\* the body of the try block for one pitched entry
emitNote(st, noteElement) ==
  LET pitch == get(noteElement, "pitch")
      noteName == pitchToNoteName(pitch)
      octave == getOctave(pitch)
      duration == parseDuration(get(noteElement, "duration"), st.divisions)
      rawX == parseFloat(xField(noteElement))
      rawY == parseFloat(yField(noteElement))
      hasValidX == xField(noteElement) # ABSENT /\ rawX.kind = "num"
      hasValidY == yField(noteElement) # ABSENT /\ rawY.kind = "num"
      noteX == IF hasValidX THEN rawX.n ELSE st.currentX
      noteY == IF hasValidY THEN px(300) - rawY.n
               ELSE defaultNoteY(noteName, octave)
      note == [name |-> noteName, octave |-> octave, x |-> noteX, y |-> noteY,
               duration |-> duration]
  IN  [st EXCEPT
         !.notes = Append(@, note),
         !.currentX = nextCursor(@, noteX, hasValidX /\ xField(noteElement) # ABSENT,
                                 duration),
         !.logs = @ \o (IF hasValidX THEN <<"coord-x">> ELSE <<>>)
                    \o (IF hasValidY THEN <<"coord-y">> ELSE <<"est-y">>)
                    \o (IF hasValidX THEN <<>> ELSE <<"est-x">>)
                    \o <<"note">>]

\* a loop body that makes a note of every object entry
processNote_everyObject(st, noteElement) ==
  IF ~truthy(noteElement) \/ noteElement.kind # "object" THEN st
  ELSE emitNote(st, noteElement)

\* one pass of the inner loop over measureNotes
processNote(st, noteElement) ==
  IF ~truthy(noteElement) \/ noteElement.kind # "object" THEN st
  ELSE IF truthy(get(noteElement, "rest")) THEN st
  ELSE IF ~truthy(get(noteElement, "pitch"))
  THEN [st EXCEPT !.logs = Append(@, "no-pitch")]
  ELSE emitNote(st, noteElement)

\* endParse without the count check
endParse_unchecked(st) ==
  [st EXCEPT !.phase = "done", !.logs = Append(@, "extracted"),
     !.result = [success |-> TRUE, error |-> "", notes |-> st.notes,
                 keyInfo |-> IF st.keyInfo = NoKey
                             THEN determineKey(0, "major") ELSE st.keyInfo,
                 keySignature |-> st.keySignature,
                 timeSignature |-> st.timeSignature]]

\* what follows the loops: the count check and the result
endParse(st) ==
  LET logs == Append(st.logs, "extracted")
  IN  IF Len(st.notes) = 0
      THEN [st EXCEPT !.phase = "done", !.logs = logs,
              !.result = [NoResult EXCEPT !.error = "No notes found"]]
      ELSE [st EXCEPT !.phase = "done", !.logs = logs,
              !.result = [success |-> TRUE, error |-> "", notes |-> st.notes,
                          keyInfo |-> IF st.keyInfo = NoKey
                                      THEN determineKey(0, "major")
                                      ELSE st.keyInfo,
                          keySignature |-> st.keySignature,
                          timeSignature |-> st.timeSignature]]

\* one step of parseMusicXML after beginParse: the head of the loop over
\* measures, one entry of the inner loop, or the end
stepParse(st) ==
  CASE st.phase = "measure" ->
         IF st.mi > Len(st.measures) THEN endParse(st)
         ELSE LET measureNotes == toArray(get(st.measures[st.mi], "note"))
              IN  IF ~measureNotes.ok
                  THEN [st EXCEPT !.logs = Append(@, "note-structure"),
                                  !.mi = @ + 1]
                  ELSE [st EXCEPT !.phase = "note",
                                  !.measureNotes = measureNotes.items,
                                  !.ni = 1]
    [] st.phase = "note" ->
         IF st.ni > Len(st.measureNotes)
         THEN [st EXCEPT !.phase = "measure", !.mi = @ + 1]
         ELSE [processNote(st, st.measureNotes[st.ni]) EXCEPT !.ni = @ + 1]
    [] OTHER -> st

\* parseMusicXML as a whole
RECURSIVE runParse(_)
runParse(st) == IF st.phase = "done" THEN st ELSE runParse(stepParse(st))

parseMusicXML(doc) == runParse(beginParse(doc))

(***************************************************************************)
(* utils/noteCoordinateExtractor.ts                                        *)
(***************************************************************************)
NOTE_SEMITONES ==
  (<<"C">> :> 0) @@ (<<"C", "#">> :> 1) @@ (<<"D">> :> 2) @@
  (<<"D", "#">> :> 3) @@ (<<"E">> :> 4) @@ (<<"F">> :> 5) @@
  (<<"F", "#">> :> 6) @@ (<<"G">> :> 7) @@ (<<"G", "#">> :> 8) @@
  (<<"A">> :> 9) @@ (<<"A", "#">> :> 10) @@ (<<"B">> :> 11)

\* a y in which an octave is five staff steps high instead of seven
yFromPitch_shortOctave(name, octave) ==
  LET semitones == IF name \in DOMAIN NOTE_SEMITONES
                   THEN NOTE_SEMITONES[name] ELSE 0
  IN  px(171) - px((octave - 4) * 70) - px(semitones * 7)

\* yFromPitch(name, octave), staffTopY = 150 and lineSpacing = 14
yFromPitch(name, octave) ==
  LET semitones == IF name \in DOMAIN NOTE_SEMITONES
                   THEN NOTE_SEMITONES[name] ELSE 0
      lineSpacing == 14
      c4Y == px(150) + 3 * lineSpacing
      octaveOffset == px((octave - 4) * 7 * lineSpacing)
      semitoneOffset == semitones * lineSpacing
  IN  c4Y - octaveOffset - semitoneOffset

\* a callback that derives y from the pitch for every note
withCoordinates_derived(note, index) ==
  ("y" :> yFromPitch(note.name, note.octave)) @@ note

\* the callback of notes.map, index counted from 0
withCoordinates(note, index) ==
  LET hasValidX == "x" \in DOMAIN note
      hasValidY == "y" \in DOMAIN note /\ note.y # 0
      x == IF hasValidX THEN note.x ELSE px(100 + (index % 8) * 80)
      y == IF hasValidY THEN note.y ELSE yFromPitch(note.name, note.octave)
  IN  IF hasValidX /\ hasValidY THEN note
      ELSE ("x" :> x) @@ ("y" :> y) @@ note

extractNoteCoordinates(notes) ==
  [i \in 1..Len(notes) |-> withCoordinates(notes[i], i - 1)]

(***************************************************************************)
(* The documents given to parseMusicXML                                    *)
(***************************************************************************)
MaxEntries == 3

Pitch(step, alter, octave) ==
  [kind |-> "object", step |-> Str(step), alter |-> alter,
   octave |-> Num(octave)]

\* <note><rest measure="yes"/>...</note>
restEntry == [kind |-> "object", rest |-> [kind |-> "object"],
              duration |-> Num(2)]

\* <note><rest/>...</note>: the empty element is read as ""
emptyRestEntry == [kind |-> "object", rest |-> Str(""), duration |-> Num(2)]

\* <note><unpitched/>...</note>
noPitchEntry == [kind |-> "object", duration |-> Num(2)]

\* C4 with no position
plainEntry ==
  [kind |-> "object", pitch |-> Pitch("C", ABSENT, 4), duration |-> Num(2)]

\* F5 raised, default-y="0"
zeroYEntry ==
  [kind |-> "object", pitch |-> Pitch("F", Num(1), 5), duration |-> Num(1)]
  @@ ("@_default-y" :> Num(0))

\* G4 placed by its attributes
placedEntry ==
  [kind |-> "object", pitch |-> Pitch("G", ABSENT, 4), duration |-> Num(2)]
  @@ ("@_default-x" :> Num(901)) @@ ("@_default-y" :> Num(100))

\* B3 lowered, placed by child elements, left of the start of the cursor,
\* no duration
childPlacedEntry ==
  [kind |-> "object", pitch |-> Pitch("B", Num(-1), 3)]
  @@ ("default-x" :> Num(30)) @@ ("default-y" :> Num(600))

\* A4 whose position attributes are not numbers
badPlacedEntry ==
  [kind |-> "object", pitch |-> Pitch("A", ABSENT, 4), duration |-> Num(1)]
  @@ ("@_default-x" :> Str("abc")) @@ ("@_default-y" :> Str("abc"))

EntryPool ==
  {restEntry, emptyRestEntry, noPitchEntry, plainEntry, zeroYEntry,
   placedEntry, childPlacedEntry, badPlacedEntry}

EntryLists == UNION { [1..n -> EntryPool] : n \in 0..MaxEntries }

Measure(attributes, note) ==
  [kind |-> "object", attributes |-> attributes, note |-> note]

Part(measure) == [kind |-> "object", measure |-> measure]

Document(part) ==
  [xml |-> "ok",
   parsed |-> [kind |-> "object"]
              @@ ("score-partwise" :> [kind |-> "object", part |-> part])]

\* divisions 2, D major... in 3/4
AttributesA ==
  [kind |-> "object", divisions |-> Num(2),
   key |-> [kind |-> "object", fifths |-> Num(2), mode |-> Str("minor")],
   time |-> [kind |-> "object", beats |-> Num(3)] @@ ("beat-type" :> Num(4))]

\* three flats without a mode, no divisions, no time
AttributesB ==
  [kind |-> "object",
   key |-> [kind |-> "object", fifths |-> Num(-3)]]

\* no key; divisions and beats that are not numbers
AttributesC ==
  [kind |-> "object", divisions |-> Str("abc"),
   time |-> [kind |-> "object", beats |-> Str("abc")] @@ ("beat-type" :> Num(8))]

AttributeChoices == {ABSENT, AttributesA, AttributesB, AttributesC}

SubSeqOrEmpty(s, a, b) == IF a > b THEN <<>> ELSE SubSeq(s, a, b)

\* the entries es in one measure, or split between two measures
EntryDocuments ==
  { Document(Arr(<<Part(Arr(<<Measure(AttributesA, Arr(es))>>))>>)) :
      es \in EntryLists }
  \cup
  { Document(Arr(<<Part(Arr(<<
        Measure(AttributesA, Arr(SubSeqOrEmpty(sk[1], 1, sk[2]))),
        Measure(ABSENT, Arr(SubSeqOrEmpty(sk[1], sk[2] + 1, Len(sk[1]))))
      >>))>>)) :
      sk \in { p \in EntryLists \X (1..MaxEntries) : p[2] < Len(p[1]) } }

\* what a measure's note field may hold
NoteNodes ==
  {ABSENT, Str("abc"), plainEntry, Arr(<<plainEntry>>),
   Arr(<<placedEntry, Str("abc"), zeroYEntry>>)}

FirstMeasures ==
  { Measure(a, n) : a \in AttributeChoices, n \in NoteNodes } \cup {Str("abc")}

LaterMeasures ==
  { Measure(a, Arr(<<zeroYEntry>>)) : a \in {ABSENT, AttributesB} }

MeasureNodes ==
  {ABSENT, Str("abc")} \cup FirstMeasures
  \cup { Arr(<<m>>) : m \in FirstMeasures }
  \cup { Arr(<<m, l>>) : m \in FirstMeasures, l \in LaterMeasures }

OtherPart == Part(Measure(AttributesB, childPlacedEntry))

PartNodes ==
  {ABSENT, Str("abc")}
  \cup { Part(m) : m \in MeasureNodes }
  \cup { Arr(<<Part(m)>>) : m \in MeasureNodes }
  \cup { Arr(<<Part(m), OtherPart>>) : m \in MeasureNodes }
  \cup { Arr(<<Str("abc"), OtherPart>>) }

\* the ways the root may differ from a plain score-partwise object
RootDocuments ==
  LET score == [kind |-> "object", part |-> Part(Measure(AttributesB, plainEntry))]
  IN  { [xml |-> "fail", parsed |-> ABSENT],
        [xml |-> "ok", parsed |-> ABSENT],
        [xml |-> "ok", parsed |-> Str("abc")],
        [xml |-> "ok", parsed |-> [kind |-> "object"]],
        [xml |-> "alt", parsed |-> [kind |-> "object"] @@ ("score-partwise" :> score)],
        [xml |-> "ok", parsed |-> [kind |-> "object"] @@ ("opus" :> score)],
        [xml |-> "ok", parsed |-> [kind |-> "object"] @@ ("opus" :> Str(""))],
        [xml |-> "ok", parsed |-> [kind |-> "object"]
                                  @@ ("score-partwise" :> Arr(<<score>>))],
        [xml |-> "ok", parsed |-> [kind |-> "object"]
                                  @@ ("score-partwise" :> Arr(<<>>))] }

StructureDocuments == { Document(p) : p \in PartNodes } \cup RootDocuments

Documents == EntryDocuments \cup StructureDocuments

(***************************************************************************)
(* A run of the parser: parseMusicXML step by step, then                   *)
(* extractNoteCoordinates on the notes of a successful result              *)
(***************************************************************************)
NoSig == [resolver |-> "parseMusicXML", sharps |-> 0, flats |-> 0,
          fifths |-> 0, mode |-> "major"]

InitParser ==
  /\ pc = "start"
  /\ sig = NoSig
  /\ keyInfo = NoKey
  /\ call \in { [op |-> "parseMusicXML", doc |-> d] : d \in Documents }
  /\ out = NoOut

\* the step has reached a return statement
Returned(st) ==
  /\ pc' = IF st.phase = "done" THEN "parsed" ELSE "parsing"
  /\ keyInfo' = IF st.phase = "done" /\ st.result.success
                THEN st.result.keyInfo ELSE keyInfo
  /\ out' = st

ParseBegin ==
  /\ pc = "start"
  /\ call.op = "parseMusicXML"
  /\ Returned(beginParse(call.doc))
  /\ UNCHANGED <<sig, call>>

ParseMeasure ==
  /\ pc = "parsing"
  /\ out.phase = "measure"
  /\ Returned(stepParse(out))
  /\ UNCHANGED <<sig, call>>

ParseNote ==
  /\ pc = "parsing"
  /\ out.phase = "note"
  /\ Returned(stepParse(out))
  /\ UNCHANGED <<sig, call>>

ExtractNoteCoordinates ==
  /\ pc = "parsed"
  /\ out.result.success
  /\ pc' = "extracted"
  /\ out' = [phase |-> "extracted", result |-> out.result,
             notesWithCoordinates |-> extractNoteCoordinates(out.result.notes)]
  /\ UNCHANGED <<sig, keyInfo, call>>

NextParser == ParseBegin \/ ParseMeasure \/ ParseNote \/ ExtractNoteCoordinates

SpecParser == InitParser /\ [][NextParser]_vars

(***************************************************************************)
(* utils/scoreRenderer.ts: renderScoreWithFingerings.  Option values and   *)
(* image sizes are in pixels, Note coordinates in half pixels as above.    *)
(***************************************************************************)
DEFAULT_OPTIONS ==
  [scale |-> 2, fontSize |-> 24, offsetY |-> 40, circleRadius |-> 18,
   showAbove |-> TRUE, showBelow |-> TRUE, offsetX |-> 0, offsetYBase |-> 0]

\* { ...DEFAULT_OPTIONS, ...options }
mergeOptions(options) == options @@ DEFAULT_OPTIONS

\* a label that shows the stored finger as it is
drawFingeringNumber_asStored(fingering, y, opts) ==
  [x |-> fingering.note.x + px(opts.offsetX), y |-> y,
   number |-> fingering.finger]

\* drawFingeringNumber: the label put on the canvas
drawFingeringNumber(fingering, y, opts) ==
  [x |-> fingering.note.x + px(opts.offsetX), y |-> y,
   number |-> IF fingering.finger > 0 THEN fingering.finger - 1 ELSE 0]

\* a test of the anchor against the image without the margin
withinMargin_none(x, noteY, displayWidth, displayHeight) ==
  ~(x < 0 \/ x > px(displayWidth)) /\ ~(noteY < 0 \/ noteY > px(displayHeight))

\* the two early returns of the forEach callback, negated
withinMargin(x, noteY, displayWidth, displayHeight) ==
  /\ ~(x < px(10) \/ x > px(displayWidth - 10))
  /\ ~(noteY < px(10) \/ noteY > px(displayHeight - 10))

\* the forEach callback: the labels drawn for one fingering
overlay(fingering, image, opts) ==
  LET x == fingering.note.x + px(opts.offsetX)
      noteY == fingering.note.y + px(opts.offsetYBase)
      yAbove == noteY - px(opts.offsetY)
      yBelow == noteY + px(opts.offsetY)
  IN  IF ~withinMargin(x, noteY, image.width, image.height) THEN <<>>
      ELSE (IF opts.showAbove /\ yAbove >= 0 /\ yAbove <= px(image.height)
            THEN <<drawFingeringNumber(fingering, yAbove, opts)>> ELSE <<>>)
           \o
           (IF opts.showBelow /\ ~opts.showAbove
               /\ yBelow >= 0 /\ yBelow <= px(image.height)
            THEN <<drawFingeringNumber(fingering, yBelow, opts)>> ELSE <<>>)

\* the canvas after the call: its size and, per fingering of the analysis,
\* the labels drawn for it (the canvas is taken to have a 2d context)
renderScoreWithFingerings(image, analysis, options) ==
  LET opts == mergeOptions(options)
  IN  [width |-> image.width * opts.scale,
       height |-> image.height * opts.scale,
       labels |-> [i \in 1..Len(analysis.fingerings) |->
                     overlay(analysis.fingerings[i], image, opts)]]

(***************************************************************************)
(* The calls of the renderer                                               *)
(***************************************************************************)
MaxLabels == 3

Placed(x, y, finger) ==
  [note |-> [name |-> <<"A">>, octave |-> 4, x |-> px(x), y |-> px(y)],
   string |-> "A", finger |-> finger, position |-> "1st"]

\* anchors in the middle, at the left, right and bottom edges, and near
\* the top and the bottom of a 100 pixel high image
FingeringPool ==
  {Placed(100, 50, 1), Placed(5, 50, 0), Placed(100, 30, 2),
   Placed(195, 50, 3), Placed(100, 95, 4), Placed(100, 70, 4)}

FingeringLists == UNION { [1..n -> FingeringPool] : n \in 1..MaxLabels }

Images == {[width |-> 200, height |-> 100], [width |-> 120, height |-> 100]}

NoOption == [f \in {} |-> 0]

OptionChoices ==
  { a @@ b @@ c @@ d @@ e @@ g :
      a \in {NoOption, [scale |-> 1]},
      b \in {NoOption, [offsetX |-> 5]},
      c \in {NoOption, [offsetYBase |-> -5]},
      d \in {NoOption, [offsetY |-> 20]},
      e \in {NoOption, [showAbove |-> FALSE]},
      g \in {NoOption, [showBelow |-> FALSE]} }

NoCanvas == [width |-> 0, height |-> 0, labels |-> <<>>]

InitRender ==
  /\ pc = "start"
  /\ sig = NoSig
  /\ keyInfo = NoKey
  /\ call \in { [op |-> "renderScoreWithFingerings", image |-> im,
                 analysis |-> [fingerings |-> fs], options |-> o] :
                im \in Images, fs \in FingeringLists, o \in OptionChoices }
  /\ out = NoCanvas

RenderScoreWithFingerings ==
  /\ pc = "start"
  /\ call.op = "renderScoreWithFingerings"
  /\ pc' = "rendered"
  /\ out' = renderScoreWithFingerings(call.image, call.analysis, call.options)
  /\ UNCHANGED <<sig, keyInfo, call>>

NextRender == RenderScoreWithFingerings

SpecRender == InitRender /\ [][NextRender]_vars

(***************************************************************************)
(* Vocabulary of the parser claims: the document as it is written,         *)
(* read without the parser                                                 *)
(***************************************************************************)
\* the list an element field stands for
Items(node) ==
  CASE node.kind = "array" -> node.items
    [] node.kind = "object" -> <<node>>
    [] OTHER -> <<>>

\* the score element of the document
DocScore(doc) ==
  IF doc.xml = "fail" \/ doc.parsed.kind # "object" THEN ABSENT
  ELSE LET keys == DOMAIN doc.parsed \ {"kind"}
           v == doc.parsed[CHOOSE k \in keys : TRUE]
       IN  IF keys = {} THEN ABSENT
           ELSE IF v.kind # "array" THEN v
           ELSE IF v.items = <<>> THEN ABSENT ELSE v.items[1]

DocParts(doc) == Items(get(DocScore(doc), "part"))

\* the measures of the first part
DocMeasures(doc) ==
  IF DocParts(doc) = <<>> THEN <<>>
  ELSE Items(get(DocParts(doc)[1], "measure"))

RECURSIVE EntriesOf(_)
EntriesOf(measures) ==
  IF measures = <<>> THEN <<>>
  ELSE Items(get(Head(measures), "note")) \o EntriesOf(Tail(measures))

\* the note entries of the first part, in document order
DocEntries(doc) == EntriesOf(DocMeasures(doc))

IsRest(e) == get(e, "rest") # ABSENT

IsPitched(e) == e.kind = "object" /\ ~IsRest(e) /\ get(e, "pitch") # ABSENT

PitchedEntries(doc) == SelectSeq(DocEntries(doc), IsPitched)

\* parseMusicXML has returned
Parsed == call.op = "parseMusicXML" /\ pc = "parsed"

(***************************************************************************)
(* C11                                                                     *)
(***************************************************************************)
\* C11: parseMusicXML never returns success with an empty note list: a
\* document with no pitched entry in its first part gets a failure result.
Claim_C11 ==
  Parsed =>
    /\ out.result.success => out.result.notes # <<>>
    /\ PitchedEntries(call.doc) = <<>> => ~out.result.success

\* a well-formed document whose entries are all rests or pitch-less was
\* traversed to the end and refused
Witness_C11 ==
  /\ Parsed
  /\ Len(DocEntries(call.doc)) >= 2
  /\ PitchedEntries(call.doc) = <<>>
  /\ out.result.error = "No notes found"

(***************************************************************************)
(* C12                                                                     *)
(***************************************************************************)
\* C12: parseMusicXML always comes to a return, whatever the input: an
\* input with no root element, no part or no measure in the first part
\* gets success = false; a failure carries a non-empty error and the
\* logs; a success carries a non-empty note list and a keyInfo.
Claim_C12 ==
  /\ call.op = "parseMusicXML" /\ pc = "parsing"
       => out.phase \in {"measure", "note"}
  /\ Parsed =>
       /\ ~out.result.success =>
            out.result.error # "" /\ out.logs # <<>>
       /\ out.result.success =>
            out.result.notes # <<>> /\ out.result.keyInfo # NoKey
       /\ ( \/ DocScore(call.doc) = ABSENT
            \/ DocParts(call.doc) = <<>>
            \/ DocMeasures(call.doc) = <<>> ) => ~out.result.success

\* a score element without any part was refused with a message and logs
Witness_C12 ==
  /\ Parsed
  /\ DocScore(call.doc) # ABSENT
  /\ DocParts(call.doc) = <<>>
  /\ ~out.result.success
  /\ out.result.error = "Part not found"
  /\ Len(out.logs) >= 5

(***************************************************************************)
(* C13                                                                     *)
(***************************************************************************)
\* the fields of a Note that can be read off its entry without the pitch
\* tables: octave, duration count, and the explicit position when numeric
MadeFrom(note, e) ==
  /\ note.octave = get(get(e, "pitch"), "octave").n
  /\ note.duration.dur =
       IF get(e, "duration") = ABSENT THEN 1 ELSE get(e, "duration").n
  /\ xField(e).kind = "num" => note.x = xField(e).n
  /\ yField(e).kind = "num" => note.y = px(300) - yField(e).n

Count(seq, x) == Cardinality({ i \in 1..Len(seq) : seq[i] = x })

PitchlessEntries(doc) ==
  SelectSeq(DocEntries(doc),
            LAMBDA e : e.kind = "object" /\ ~IsRest(e) /\ ~IsPitched(e))

\* C13: the notes are the pitched, non-rest entries of the first part, one
\* Note each, in document order; rests and pitch-less entries give no
\* Note and do not stop the traversal; every pitch-less entry adds a
\* diagnostic to the logs.
Claim_C13 ==
  Parsed =>
    LET es == PitchedEntries(call.doc)
    IN  /\ Len(out.notes) = Len(es)
        /\ \A i \in 1..Len(es) : MadeFrom(out.notes[i], es[i])
        /\ Count(out.logs, "no-pitch") >= Len(PitchlessEntries(call.doc))
        /\ Count(out.logs, "no-pitch")
             <= Len(DocEntries(call.doc)) - Len(es)

\* a rest, then a pitch-less entry, then a pitched one: one Note, one
\* diagnostic
Witness_C13 ==
  /\ Parsed
  /\ DocEntries(call.doc) = <<restEntry, noPitchEntry, placedEntry>>
  /\ Len(out.result.notes) = 1
  /\ MadeFrom(out.result.notes[1], placedEntry)
  /\ Count(out.logs, "no-pitch") = 1

(***************************************************************************)
(* C14                                                                     *)
(***************************************************************************)
\* a single object written as a one-element array, and the reverse
Wrapped(node) == IF node.kind = "object" THEN Arr(<<node>>) ELSE node

Unwrapped(node) ==
  IF node.kind = "array" /\ Len(node.items) = 1
     /\ node.items[1].kind = "object"
  THEN node.items[1] ELSE node

\* F applied to the object or to every item of the array
OnItems(node, F(_)) ==
  CASE node.kind = "array" ->
         Arr([i \in 1..Len(node.items) |-> F(node.items[i])])
    [] node.kind = "object" -> F(node)
    [] OTHER -> node

\* the document with the part, measure and note fields rewritten by S
Reshaped(doc, S(_)) ==
  LET measure(m) == IF m.kind = "object" THEN [m EXCEPT !.note = S(@)] ELSE m
      part(p) == IF p.kind = "object"
                 THEN [p EXCEPT !.measure = S(OnItems(@, measure))] ELSE p
      score(sc) == IF sc.kind = "object"
                   THEN [sc EXCEPT !.part = S(OnItems(@, part))] ELSE sc
  IN  IF doc.xml = "fail" \/ doc.parsed.kind # "object" THEN doc
      ELSE [doc EXCEPT !.parsed =
              [k \in DOMAIN doc.parsed |->
                 IF k = "kind" THEN "object"
                 ELSE OnItems(doc.parsed[k], score)]]

\* what the claims compare of a result
Outcome(st) ==
  [success |-> st.result.success, notes |-> st.result.notes,
   keyInfo |-> st.result.keyInfo, timeSignature |-> st.result.timeSignature]

\* C14: a part, measure or note given as a single object is read as the
\* one-element collection of it: rewriting one form into the other leaves
\* notes, keyInfo and timeSignature unchanged.
Claim_C14 ==
  Parsed =>
    /\ Outcome(out) = Outcome(parseMusicXML(Reshaped(call.doc, Unwrapped)))
    /\ Outcome(out) = Outcome(parseMusicXML(Reshaped(call.doc, Wrapped)))

\* a one-element array at each of the three levels was parsed to a note
Witness_C14 ==
  /\ Parsed
  /\ out.result.success
  /\ call.doc =
       Document(Arr(<<Part(Arr(<<Measure(AttributesA, Arr(<<plainEntry>>))>>))>>))
  /\ Reshaped(call.doc, Unwrapped) =
       Document(Part(Measure(AttributesA, plainEntry)))
  /\ Reshaped(Reshaped(call.doc, Unwrapped), Wrapped) = call.doc

(***************************************************************************)
(* C15                                                                     *)
(***************************************************************************)
\* the document with the attributes of every measure after the first set
\* to a
LaterAttributes(doc, a) ==
  LET measures(ms) ==
        IF ms.kind # "array" THEN ms
        ELSE Arr([i \in 1..Len(ms.items) |->
                    IF i >= 2 /\ ms.items[i].kind = "object"
                    THEN [ms.items[i] EXCEPT !.attributes = a]
                    ELSE ms.items[i]])
      part(p) == IF p.kind = "object"
                 THEN [p EXCEPT !.measure = measures(@)] ELSE p
      score(sc) == IF sc.kind = "object"
                   THEN [sc EXCEPT !.part = OnItems(@, part)] ELSE sc
  IN  IF doc.xml = "fail" \/ doc.parsed.kind # "object" THEN doc
      ELSE [doc EXCEPT !.parsed =
              [k \in DOMAIN doc.parsed |->
                 IF k = "kind" THEN "object"
                 ELSE OnItems(doc.parsed[k], score)]]

\* the key element of the first measure of the first part
DocKey(doc) == get(get(DocMeasures(doc)[1], "attributes"), "key")

CMajor == [key |-> "C", mode |-> "major", sharps |-> 0, flats |-> 0]

\* C15: key, time signature and divisions come from the first measure of
\* the first part only: whatever attributes the later measures carry,
\* keyInfo, timeSignature and every duration are the same; the key of the
\* first measure gives the signed accidental count and the mode, and
\* without a key there keyInfo is C major with no sharps and no flats.
Claim_C15 ==
  Parsed /\ out.result.success =>
    /\ \A a \in AttributeChoices :
         Outcome(out) = Outcome(parseMusicXML(LaterAttributes(call.doc, a)))
    /\ DocKey(call.doc) = ABSENT => out.result.keyInfo = CMajor
    /\ DocKey(call.doc) # ABSENT =>
         /\ out.result.keyInfo.sharps - out.result.keyInfo.flats
              = get(DocKey(call.doc), "fifths").n
         /\ out.result.keyInfo.mode =
              IF get(DocKey(call.doc), "mode") = ABSENT THEN "major"
              ELSE get(DocKey(call.doc), "mode").s

\* a first measure without attributes, a later measure with three flats
\* and a note: the result is in C major
Witness_C15 ==
  /\ Parsed
  /\ out.result.success
  /\ Len(DocMeasures(call.doc)) = 2
  /\ get(DocMeasures(call.doc)[1], "attributes") = ABSENT
  /\ get(DocMeasures(call.doc)[2], "attributes") = AttributesB
  /\ out.result.keyInfo = CMajor
  /\ Len(out.result.notes) >= 2

(***************************************************************************)
(* C16                                                                     *)
(***************************************************************************)
\* the number an entry carries as its default-x or default-y, in the
\* attribute or the child spelling; ABSENT when it carries none
Carried(e, field) ==
  LET attribute == get(e, "@_" \o field)
      child == get(e, field)
  IN  IF attribute.kind = "num" THEN attribute
      ELSE IF child.kind = "num" THEN child
      ELSE ABSENT

\* 171 - (octave - 4) * 98 - semitone * 7 for the note's own name, in half
\* pixels
PitchY(note) ==
  px(171) - px((note.octave - 4) * 98) - px(7 * SoundingPitch(note.name, 0))

Extracted == call.op = "parseMusicXML" /\ pc = "extracted"

\* the entry carries no default-y, or a default-y of zero
UnsetY(e) ==
  \/ get(e, "@_default-y") = ABSENT /\ get(e, "default-y") = ABSENT
  \/ Carried(e, "default-y") = Num(0)

\* C17: a note whose entry has no vertical position, or a vertical
\* position of zero, comes out of parseMusicXML and extractNoteCoordinates
\* with the pitch-derived y, 171 - (octave - 4) * 98 - semitone * 7.
Claim_C17 ==
  Extracted =>
    LET es == PitchedEntries(call.doc)
    IN  \A i \in 1..Len(es) :
          UnsetY(es[i]) =>
            out.notesWithCoordinates[i].y = PitchY(out.notesWithCoordinates[i])

(***************************************************************************)
(* C18                                                                     *)
(***************************************************************************)
\* C18: a Note without an explicit x lies strictly to the right of the
\* Note emitted just before it; right after a Note with an explicit x it
\* is at that x + 50; as the first Note of the document it is at 200.
Claim_C18 ==
  Parsed =>
    LET es == PitchedEntries(call.doc)
    IN  \A i \in 1..Len(out.notes) :
          Carried(es[i], "default-x") = ABSENT =>
            /\ i = 1 => out.notes[i].x = px(200)
            /\ i > 1 => out.notes[i].x > out.notes[i - 1].x
            /\ i > 1 /\ Carried(es[i - 1], "default-x") # ABSENT =>
                 out.notes[i].x = out.notes[i - 1].x + px(50)

\* two notes with explicit positions, the second left of the first, then a
\* note without position fields: it is 50 right of the second
Witness_C18 ==
  /\ Parsed
  /\ PitchedEntries(call.doc) = <<placedEntry, childPlacedEntry, plainEntry>>
  /\ out.notes[2].x < out.notes[1].x
  /\ out.notes[3].x = 30 + px(50)

(***************************************************************************)
(* C20                                                                     *)
(***************************************************************************)
\* renderScoreWithFingerings has returned
Rendered == call.op = "renderScoreWithFingerings" /\ pc = "rendered"

\* the option in force: the one given, else the default
Option(f) == mergeOptions(call.options)[f]

AnchorX(i) == call.analysis.fingerings[i].note.x + px(Option("offsetX"))

AnchorY(i) == call.analysis.fingerings[i].note.y + px(Option("offsetYBase"))

\* 10 <= x + offsetX <= W - 10 and 10 <= y + offsetYBase <= H - 10
InsideMargin(i) ==
  /\ px(10) <= AnchorX(i) /\ AnchorX(i) <= px(call.image.width - 10)
  /\ px(10) <= AnchorY(i) /\ AnchorY(i) <= px(call.image.height - 10)

\* a label was drawn for the i-th fingering
Drawn(i) == out.labels[i] # <<>>

\* where the label goes: above the anchor when showAbove, else below
LabelY(i) ==
  IF Option("showAbove") THEN AnchorY(i) - px(Option("offsetY"))
  ELSE AnchorY(i) + px(Option("offsetY"))

\* the label is asked for and lies on the image
LabelOnImage(i) ==
  /\ Option("showAbove") \/ Option("showBelow")
  /\ 0 <= LabelY(i) /\ LabelY(i) <= px(call.image.height)

\* C20 as stated: the label of a fingering is drawn if and only if its
\* anchor is inside the margin.
Claim_C20_asStated ==
  Rendered =>
    \A i \in 1..Len(call.analysis.fingerings) : Drawn(i) <=> InsideMargin(i)

\* C20: the label of a fingering is drawn only if its offset-adjusted
\* anchor is inside the margin of 10 of the unscaled image, and then
\* exactly when the label itself, offsetY above or below the anchor, lies
\* on the image and is asked for; the scale changes nothing of this, and
\* the call leaves analysis.fingerings as it was.
Claim_C20 ==
  /\ [](Rendered =>
         /\ \A i \in 1..Len(call.analysis.fingerings) :
              Drawn(i) <=> InsideMargin(i) /\ LabelOnImage(i)
         /\ \A scale \in 1..3 :
              out.labels =
                renderScoreWithFingerings(
                  call.image, call.analysis,
                  [scale |-> scale] @@ call.options).labels)
  /\ [][call'.analysis = call.analysis]_vars

\* with the default placement, one fingering clipped at the left edge, one
\* inside the margin whose label would lie above the image, one drawn: all
\* three are still in the analysis
Witness_C20 ==
  /\ Rendered
  /\ Len(call.analysis.fingerings) = 3
  /\ "showAbove" \notin DOMAIN call.options
  /\ ~InsideMargin(1) /\ ~Drawn(1)
  /\ InsideMargin(2) /\ ~LabelOnImage(2) /\ ~Drawn(2)
  /\ InsideMargin(3) /\ Drawn(3)

(***************************************************************************)
(* C21                                                                     *)
(***************************************************************************)
\* neither showAbove nor showBelow is given to the call
DefaultPlacement ==
  "showAbove" \notin DOMAIN call.options /\ "showBelow" \notin DOMAIN call.options

\* C21: with the default placement every label drawn for a fingering is
\* below its note, at (x, y + offsetY), the anchor being the note position
\* adjusted by offsetX and offsetYBase.
Claim_C21 ==
  Rendered /\ DefaultPlacement =>
    \A i \in 1..Len(call.analysis.fingerings) :
      \A k \in 1..Len(out.labels[i]) :
        /\ out.labels[i][k].x = AnchorX(i)
        /\ out.labels[i][k].y = AnchorY(i) + px(Option("offsetY"))

(***************************************************************************)
(* C30                                                                     *)
(***************************************************************************)
\* C30: the number of every drawn label is the finger of its fingering
\* minus one for the fingers 1..4 and 0 for the open string, hence within
\* 0..3, and the fingers stored in the analysis stay what they were, within
\* 0..4.
Claim_C30 ==
  /\ [](Rendered =>
         \A i \in 1..Len(call.analysis.fingerings) :
           LET finger == call.analysis.fingerings[i].finger
           IN  /\ finger \in 0..4
               /\ \A k \in 1..Len(out.labels[i]) :
                    /\ out.labels[i][k].number =
                         (IF finger = 0 THEN 0 ELSE finger - 1)
                    /\ out.labels[i][k].number \in 0..3)
  /\ [][\A i \in 1..Len(call.analysis.fingerings) :
          call'.analysis.fingerings[i].finger =
            call.analysis.fingerings[i].finger]_vars

\* an open string and a first finger both drawn as 0, a fourth finger
\* drawn as 3
Witness_C30 ==
  /\ Rendered
  /\ Len(call.analysis.fingerings) = 3
  /\ call.analysis.fingerings[1].finger = 0 /\ Drawn(1)
  /\ out.labels[1][1].number = 0
  /\ call.analysis.fingerings[2].finger = 1 /\ Drawn(2)
  /\ out.labels[2][1].number = 0
  /\ call.analysis.fingerings[3].finger = 4 /\ Drawn(3)
  /\ out.labels[3][1].number = 3

(***************************************************************************)
(* C24                                                                     *)
(***************************************************************************)
\* the alteration written in a pitch element, 0 when there is none
AlterOf(pitch) == IF get(pitch, "alter") = ABSENT THEN 0 ELSE get(pitch, "alter").n

\* the semitone, within the octave, of the note that a pitch element sounds
SoundingSemitone(pitch) ==
  (LetterSemitone[get(pitch, "step").s] + AlterOf(pitch) + 12) % 12

\* the semitone of a note name
NameSemitone(name) == (SoundingPitch(name, 0) + 12) % 12

\* C24: the name given to a pitch is the name of its sounding note, for
\* every step C..B and every alter among absent, -1, 0, +1, and so for
\* every Note that parseMusicXML returns; an unaltered step keeps its
\* letter.
Claim_C24 ==
  Parsed =>
    /\ \A step \in Letters : \A alter \in {ABSENT, Num(-1), Num(0), Num(1)} :
         LET pitch == Pitch(step, alter, 4)
         IN  /\ NameSemitone(pitchToNoteName(pitch)) = SoundingSemitone(pitch)
             /\ AlterOf(pitch) = 0 => pitchToNoteName(pitch) = <<step>>
             /\ AlterOf(pitch) = 1 => pitchToNoteName(pitch) = <<step, "#">>
    /\ \A i \in 1..Len(out.notes) :
         NameSemitone(out.notes[i].name) =
           SoundingSemitone(get(PitchedEntries(call.doc)[i], "pitch"))

(***************************************************************************)
(* C25                                                                     *)
(***************************************************************************)
\* the entry that the next pass of the note loop looks at, if any
AtEntry == pc = "parsing" /\ out.phase = "note" /\ out.ni <= Len(out.measureNotes)

CurrentEntry == out.measureNotes[out.ni]

\* the pass has emitted a Note
Emitted == Len(out'.notes) = Len(out.notes) + 1

\* a duration, kept as dur / per with per > 0, is at least 1
WholeBeat(duration) == duration.dur >= duration.per

\* C25: the cursor starts at 200; a pass that emits a Note without an
\* explicit x gives it the x of the cursor and advances the cursor by 60
\* when its duration is at least 1 and by 40 otherwise; a pass that emits a
\* Note with an explicit x gives it that x and sets the cursor to it + 50;
\* every other step, a skipped entry or the end of a measure, leaves the
\* cursor where it was.
Claim_C25 ==
  [][ /\ pc = "start" /\ pc' = "parsing" => out'.currentX = px(200)
      /\ pc = "parsing" =>
           IF AtEntry /\ Emitted
           THEN LET note == out'.notes[Len(out'.notes)]
                    explicit == Carried(CurrentEntry, "default-x")
                IN  /\ IsPitched(CurrentEntry)
                    /\ explicit = ABSENT =>
                         /\ note.x = out.currentX
                         /\ out'.currentX - out.currentX =
                              (IF WholeBeat(note.duration) THEN px(60)
                               ELSE px(40))
                    /\ explicit # ABSENT =>
                         /\ note.x = explicit.n
                         /\ out'.currentX = note.x + px(50)
           ELSE /\ out'.currentX = out.currentX
                /\ out'.notes = out.notes
                /\ AtEntry => ~IsPitched(CurrentEntry) ]_vars

\* with two divisions per beat, across a measure boundary: a half-beat
\* note at 200, a one-beat note at 240, then a note placed at 450.5 that
\* takes the cursor to 500.5
Witness_C25 ==
  /\ Parsed
  /\ out.divisions = 2
  /\ Len(DocMeasures(call.doc)) = 2
  /\ DocEntries(call.doc) = <<zeroYEntry, plainEntry, placedEntry>>
  /\ out.notes[1].x = px(200)
  /\ out.notes[2].x = px(240)
  /\ out.notes[3].x = 901
  /\ out.currentX = 901 + px(50)

(***************************************************************************)
(* C27                                                                     *)
(***************************************************************************)
\* a part in another key and metre, with two notes
SecondPart ==
  Part(Arr(<<Measure(AttributesA, Arr(<<placedEntry, zeroYEntry>>))>>))

\* what may follow the first part
OtherParts ==
  {<<>>, <<OtherPart>>, <<SecondPart>>, <<Str("abc")>>,
   <<SecondPart, OtherPart>>}

\* the document with the parts after the first replaced by others
WithOtherParts(doc, others) ==
  LET first == DocParts(doc)[1]
      score(sc) == IF sc.kind = "object"
                   THEN [sc EXCEPT !.part = Arr(<<first>> \o others)] ELSE sc
  IN  [doc EXCEPT !.parsed =
         [k \in DOMAIN doc.parsed |->
            IF k = "kind" THEN "object" ELSE OnItems(doc.parsed[k], score)]]

\* C27: only the first part is read: the notes are the pitched, non-rest
\* entries of its measures, one Note each in document order, and whatever
\* parts follow it, removed, added or changed, the result has the same
\* notes, keyInfo and timeSignature.
Claim_C27 ==
  Parsed /\ DocParts(call.doc) # <<>> =>
    /\ \A others \in OtherParts :
         Outcome(out) = Outcome(parseMusicXML(WithOtherParts(call.doc, others)))
    /\ out.result.success =>
         /\ Len(out.result.notes) = Len(PitchedEntries(call.doc))
         /\ \A i \in 1..Len(out.result.notes) :
              MadeFrom(out.result.notes[i], PitchedEntries(call.doc)[i])

\* a document of two parts: the one note comes from the first; the second,
\* with three flats and a lowered B placed at 15, is not read
Witness_C27 ==
  /\ Parsed
  /\ out.result.success
  /\ Len(DocParts(call.doc)) = 2
  /\ DocParts(call.doc)[2] = OtherPart
  /\ PitchedEntries(call.doc) = <<plainEntry>>
  /\ Len(out.result.notes) = 1
  /\ out.result.notes[1].x = px(200)
  /\ WithOtherParts(call.doc, <<>>) # call.doc

PitchPairs ==
  { <<[name |-> a[1], octave |-> a[2], x |-> px(200), y |-> 0],
      [name |-> b[1], octave |-> b[2], x |-> px(260), y |-> 0]>> :
      a \in NoteName \X Octaves, b \in NoteName \X Octaves }

InitPitchY ==
  /\ pc = "start"
  /\ sig = NoSig
  /\ keyInfo = NoKey
  /\ call \in { [op |-> o, notes |-> ns] :
                o \in {"extractNoteCoordinates", "defaultNoteY"},
                ns \in PitchPairs }
  /\ out = <<>>

\* extractNoteCoordinates on the pair: both y come from yFromPitch
ExtractPair ==
  /\ pc = "start"
  /\ call.op = "extractNoteCoordinates"
  /\ pc' = "placed"
  /\ out' = extractNoteCoordinates(call.notes)
  /\ UNCHANGED <<sig, keyInfo, call>>

\* the parser's estimate of y for the two pitches
EstimatePair ==
  /\ pc = "start"
  /\ call.op = "defaultNoteY"
  /\ pc' = "placed"
  /\ out' = [i \in 1..2 |->
               [call.notes[i] EXCEPT
                  !.y = defaultNoteY(call.notes[i].name, call.notes[i].octave)]]
  /\ UNCHANGED <<sig, keyInfo, call>>

NextPitchY == ExtractPair \/ EstimatePair

SpecPitchY == InitPitchY /\ [][NextPitchY]_vars

\* both notes of the pair have their pitch-derived y
PairPlaced == call.op \in {"extractNoteCoordinates", "defaultNoteY"} /\ pc = "placed"

\* C29: of two notes the one of lower absolute pitch has the greater
\* pitch-derived y, also when an octave boundary lies between them, and two
\* notes have the same y only if they have the same name and octave.
Claim_C29 ==
  PairPlaced =>
    LET p1 == SoundingPitch(call.notes[1].name, call.notes[1].octave)
        p2 == SoundingPitch(call.notes[2].name, call.notes[2].octave)
    IN  /\ p1 < p2 => out[1].y > out[2].y
        /\ out[1].y = out[2].y =>
             /\ call.notes[1].name = call.notes[2].name
             /\ call.notes[1].octave = call.notes[2].octave
        /\ \A i \in 1..2 : out[i].y = PitchY(call.notes[i])

\* B4 and C5: 171 - 77 = 94 against 171 - 98 = 73
Witness_C29 ==
  /\ PairPlaced
  /\ call.op = "extractNoteCoordinates"
  /\ call.notes[1].name = <<"B">> /\ call.notes[1].octave = 4
  /\ call.notes[2].name = <<"C">> /\ call.notes[2].octave = 5
  /\ out[1].y = px(94)
  /\ out[2].y = px(73)

(***************************************************************************)
(* C26                                                                     *)
(***************************************************************************)
\* C26: for a key with a count in -7..7 and a playable note,
\* calculateFingering applied again, under the same key, to the note stored
\* in the Fingering it returned gives the same string, finger, position and
\* note name.
Claim_C26 ==
  Done("calculateFingering") /\ InTable /\ out.fingering # NULL =>
    LET again == calculateFingering(out.fingering.note, keyInfo)
    IN  /\ again # NULL
        /\ again.string = out.fingering.string
        /\ again.finger = out.fingering.finger
        /\ again.position = out.fingering.position
        /\ again.note.name = out.fingering.note.name

(***************************************************************************)
(* utils/omrProcessor.ts: what processOMR may return.  The engine and the  *)
(* file system are outside the program; each return statement of           *)
(* processOMR gives one shape of result.  Messages and log lines are       *)
(* rendered in English.                                                    *)
(***************************************************************************)
\* the log lines up to the call of the engine, then the engine's own
omrLogsToEngine ==
  <<"omr-start", "saving-temp-file", "temp-file", "output-dir", "engine-run",
    "engine-path", "engine-command">>

\* return { success: false, error: result.error, logs }: no MusicXML file
\* in the output directory, or no engine
omrEngineFailure(error) ==
  [success |-> FALSE, error |-> Str(error), musicXml |-> ABSENT,
   logs |-> omrLogsToEngine \o <<"engine-output", "omr-failed">>]

\* return { success: false, error: "... empty or unreadable", logs }
omrEmptyFile ==
  [success |-> FALSE, error |-> Str("MusicXML file is empty or unreadable"),
   musicXml |-> ABSENT,
   logs |-> omrLogsToEngine \o <<"engine-output", "read-file">>]

\* the catch of processOMR: a collaborator has thrown
omrCaught(message) ==
  [success |-> FALSE, error |-> Str(message), musicXml |-> ABSENT,
   logs |-> <<"omr-start", "saving-temp-file", "omr-error">>]

\* return { success: true, musicXml, imagePath, logs }
omrSuccess(musicXml) ==
  [success |-> TRUE, error |-> ABSENT, musicXml |-> musicXml,
   logs |-> omrLogsToEngine
            \o <<"engine-output", "read-file", "file-size", "file-start", "omr-done">>]

(***************************************************************************)
(* FINGERING_OVERLAY_IMPLEMENTATION.md: the handler of /api/omr            *)
(***************************************************************************)
\* res.status(status).json({ success: false, error, logs })
failed(status, error, logs) ==
  [status |-> status, success |-> FALSE, error |-> error, logs |-> logs]

\* !omrResult.success || !omrResult.musicXml
omrFailed(omrResult) == ~omrResult.success \/ omrResult.musicXml = ABSENT

\* omrResult.error || "OMR failed"
omrErrorOf(omrResult) ==
  IF truthy(omrResult.error) THEN omrResult.error.s ELSE "OMR failed"

\* a test of the parsed data that lets every result pass
parseFailed_never(parsedData) == FALSE

\* !parsedData.success || !parsedData.notes || parsedData.notes.length === 0
parseFailed(parsedData) == ~parsedData.success \/ Len(parsedData.notes) = 0

\* parsedData.error || "MusicXML parsing failed or no notes"
parseErrorOf(parsedData) ==
  IF parsedData.error # "" THEN parsedData.error
  ELSE "MusicXML parsing failed or no notes"

\* the object parseMusicXML returns: the result fields and the logs
parsedDataOf(st) ==
  [success |-> st.result.success, error |-> st.result.error,
   notes |-> st.result.notes, keyInfo |-> st.result.keyInfo,
   keySignature |-> st.result.keySignature,
   timeSignature |-> st.result.timeSignature, logs |-> st.logs]

\* parsedData.keyInfo || detectKeyFromSignature(sharps || 0, flats || 0)
handlerKeyInfo(parsedData) ==
  IF parsedData.keyInfo # NoKey THEN parsedData.keyInfo
  ELSE detectKeyFromSignature(parsedData.keySignature.sharps,
                              parsedData.keySignature.flats)

\* the locals of the handler before its first statement; the two note
\* lists are kept as arrays once they are assigned
NoRequest ==
  [logs |-> <<>>, omrResult |-> ABSENT, parsedData |-> ABSENT,
   notesWithCoordinates |-> ABSENT, fingerings |-> ABSENT,
   response |-> ABSENT]

\* the documents the engine may have written
HandlerDocuments ==
  StructureDocuments
  \cup { Document(Arr(<<Part(Arr(<<Measure(a, Arr(es))>>))>>)) :
           a \in AttributeChoices,
           es \in UNION { [1..n -> EntryPool] : n \in 0..2 } }

OMRResults ==
  {omrEngineFailure("MusicXML file not found"),
   omrEngineFailure("Audiveris not found"),
   omrEmptyFile,
   omrCaught("ENOSPC: no space left on device")}
  \cup { omrSuccess(d) : d \in HandlerDocuments }

\* req: the method, the body (absent, without a file, with one), and what
\* the call of processOMR is going to return
InitHandler ==
  /\ pc = "start"
  /\ sig = NoSig
  /\ keyInfo = NoKey
  /\ call \in { [op |-> "handler", method |-> m, body |-> b, omr |-> r] :
                m \in {"POST", "GET"},
                b \in {"none", "empty", "file"},
                r \in OMRResults }
  /\ out = NoRequest

\* the handler has sent its response
Respond(locals) ==
  /\ pc' = "responded"
  /\ out' = locals
  /\ UNCHANGED <<sig, keyInfo, call>>

\* from the entry to the call of processOMR
HandlerBegin ==
  /\ pc = "start"
  /\ call.op = "handler"
  /\ IF call.method # "POST"
     THEN Respond([out EXCEPT !.response =
                     [status |-> 405, success |-> FALSE,
                      error |-> "Method not allowed"]])
     ELSE LET logs == <<"handler-start">>
          IN  IF call.body = "none"
              THEN Respond([out EXCEPT
                      !.logs = Append(logs, "handler-error"),
                      !.response =
                        failed(500, "Cannot read properties of undefined",
                               Append(logs, "handler-error"))])
              ELSE IF call.body = "empty"
              THEN Respond([out EXCEPT
                      !.logs = logs,
                      !.response = failed(400, "No file provided", logs)])
              ELSE /\ pc' = "omr"
                   /\ out' = [out EXCEPT
                                !.logs = logs \o <<"file-received", "omr-running">>]
                   /\ UNCHANGED <<sig, keyInfo, call>>

\* 1. await processOMR(...)
HandlerOMR ==
  /\ pc = "omr"
  /\ LET omrResult == call.omr
         locals == [out EXCEPT !.omrResult = omrResult]
     IN  IF omrFailed(omrResult)
         THEN Respond([locals EXCEPT !.response =
                         failed(500, omrErrorOf(omrResult),
                                out.logs \o omrResult.logs)])
         ELSE /\ pc' = "parse"
              /\ out' = [locals EXCEPT
                           !.logs = @ \o <<"omr-complete", "xml-size", "parsing">>]
              /\ UNCHANGED <<sig, keyInfo, call>>

\* 2. parseMusicXML(omrResult.musicXml)
HandlerParse ==
  /\ pc = "parse"
  /\ LET parsedData == parsedDataOf(parseMusicXML(out.omrResult.musicXml))
         locals == [out EXCEPT !.parsedData = parsedData]
     IN  IF parseFailed(parsedData)
         THEN Respond([locals EXCEPT !.response =
                         failed(500, parseErrorOf(parsedData),
                                out.logs \o parsedData.logs)])
         ELSE /\ pc' = "extract"
              /\ out' = [locals EXCEPT
                           !.logs = @ \o <<"notes-extracted", "key",
                                           "checking-coordinates">>]
              /\ UNCHANGED <<sig, keyInfo, call>>

\* 3. await extractNoteCoordinates(...), 4. the key
HandlerExtract ==
  /\ pc = "extract"
  /\ LET notesWithCoordinates == extractNoteCoordinates(out.parsedData.notes)
     IN  /\ out' = [out EXCEPT
                      !.notesWithCoordinates = Arr(notesWithCoordinates),
                      !.logs = @ \o (IF Len(notesWithCoordinates) = 0
                                     THEN <<"coordinates-warning">>
                                     ELSE <<"coordinates-done">>)
                                 \o <<"calculating-fingerings">>]
         /\ keyInfo' = handlerKeyInfo(out.parsedData)
  /\ pc' = "fingering"
  /\ UNCHANGED <<sig, call>>

\* 5. calculateFingerings, 6. the analysis and the response
HandlerFingerings ==
  /\ pc = "fingering"
  /\ LET fingerings == calculateFingerings(out.notesWithCoordinates.items,
                                          keyInfo)
         logs == out.logs \o <<"fingerings-done", "handler-done">>
         analysis == [keyInfo |-> keyInfo,
                      notes |-> out.notesWithCoordinates.items,
                      fingerings |-> fingerings,
                      timeSignature |-> out.parsedData.timeSignature]
     IN  Respond([out EXCEPT
                    !.fingerings = Arr(fingerings),
                    !.logs = logs,
                    !.response = [status |-> 200, success |-> TRUE,
                                  analysis |-> analysis, logs |-> logs]])

NextHandler ==
  HandlerBegin \/ HandlerOMR \/ HandlerParse \/ HandlerExtract
  \/ HandlerFingerings

SpecHandler == InitHandler /\ [][NextHandler]_vars

(***************************************************************************)
(* C22                                                                     *)
(***************************************************************************)
\* the handler has sent its response
Responded == call.op = "handler" /\ pc = "responded"

\* the stages that have run so far, read off the locals they assign
RanOMR == out.omrResult # ABSENT
RanParse == out.parsedData # ABSENT
RanExtract == out.notesWithCoordinates # ABSENT
RanFingerings == out.fingerings # ABSENT

\* the engine gave a document; the document gave at least one note
EngineGave == call.omr.success /\ call.omr.musicXml # ABSENT

DocumentGave ==
  /\ EngineGave
  /\ parseMusicXML(call.omr.musicXml).result.success
  /\ Len(parseMusicXML(call.omr.musicXml).result.notes) >= 1

\* the messages with which a document of the engine can be refused
MalformedMessages ==
  { parseMusicXML(d).result.error :
      d \in { e \in HandlerDocuments : ~parseMusicXML(e).result.success } }

\* a failure response: not successful, one message, a log list, no analysis
Refusal(response) ==
  /\ ~response.success
  /\ response.error # ""
  /\ "logs" \in DOMAIN response
  /\ "analysis" \notin DOMAIN response

\* C22: the stages run in the order OMR, parsing, coordinate extraction,
\* fingering calculation, each only after the one before it has succeeded;
\* the first that fails ends the request with a refusal and none runs after
\* it; the message of a failed engine is never one of those of a refused
\* document; and a successful response is sent only when the engine gave a
\* document with at least one note, with at most as many fingerings as
\* notes.
Claim_C22 ==
  /\ [][ /\ ~RanOMR /\ RanOMR' => pc = "omr"
         /\ ~RanParse /\ RanParse' => RanOMR /\ EngineGave
         /\ ~RanExtract /\ RanExtract' => RanParse /\ DocumentGave
         /\ ~RanFingerings /\ RanFingerings' => RanExtract /\ DocumentGave
         /\ pc = "responded" => UNCHANGED vars ]_vars
  /\ [](Responded /\ RanOMR =>
          /\ ~EngineGave =>
               /\ Refusal(out.response)
               /\ out.response.error \notin MalformedMessages
               /\ ~RanParse /\ ~RanExtract /\ ~RanFingerings
          /\ EngineGave /\ ~DocumentGave =>
               /\ Refusal(out.response)
               /\ out.response.error \in MalformedMessages
               /\ RanParse /\ ~RanExtract /\ ~RanFingerings
          /\ EngineGave /\ DocumentGave =>
               /\ out.response.success
               /\ RanParse /\ RanExtract /\ RanFingerings)
  /\ [](Responded /\ out.response.success =>
          /\ EngineGave /\ DocumentGave
          /\ Len(out.response.analysis.notes) >= 1
          /\ Len(out.response.analysis.fingerings)
               <= Len(out.response.analysis.notes))

\* the engine wrote a document without notes: the request ends at the
\* parsing with the parser's message, after two stages
Witness_C22 ==
  /\ Responded
  /\ EngineGave /\ ~DocumentGave
  /\ out.response.status = 500
  /\ out.response.error = "No notes found"
  /\ RanOMR /\ RanParse /\ ~RanExtract /\ ~RanFingerings

(***************************************************************************)
(* C23                                                                     *)
(***************************************************************************)
\* part occurs in logs as a run of consecutive lines
Within(part, logs) ==
  \E k \in 0..(Len(logs) - Len(part)) :
    SubSeq(logs, k + 1, k + Len(part)) = part

\* C23: the log list of a response holds the lines of every stage that
\* ran: those of the handler, those that processOMR returned and those
\* that parseMusicXML returned, on the failure paths and on the success path.
Claim_C23 ==
  Responded /\ "logs" \in DOMAIN out.response =>
    /\ Within(out.logs, out.response.logs)
    /\ RanOMR => Within(out.omrResult.logs, out.response.logs)
    /\ RanParse => Within(out.parsedData.logs, out.response.logs)

====
